---- MODULE Spec2Model ----
(***************************************************************************)
(* A model of zoobr/csxlib's dbschema package: field-descriptor            *)
(* extraction, the additive migration pass run by dbschema.Init, and the   *)
(* statement generators of the PostgreSQL and MySQL dialect engines.       *)
(*                                                                         *)
(* SQL text is modelled as a sequence of string tokens, one token per      *)
(* WriteString/WriteByte/Sprintf piece of the Go code, so that separators  *)
(* and placeholders are things a check can count.                          *)
(***************************************************************************)
EXTENDS Integers, Sequences, FiniteSets, TLC

\* ------------------------------------------------------------------ bounds

\* longest model (struct field list) a schema is built from
MaxFields == 2
\* longest live column list handed to the diff
MaxLive == 2
\* most process starts (runs of dbschema.Init) followed
MaxRuns == 3
\* most caller args (WHERE arguments) of an Insert/Update
MaxArgs == 2
\* most bound values of an Insert/Update
MaxVals == 3
\* deepest nesting of sub-queries in a query tree
MaxDepth == 2
\* instances with one name handed to Register
MaxInstances == 2

VARIABLES
    \* ---- dbschema.Init and the migration pass
    pc,          \* position of dbschema.Init: idle, connect, schemas, ... done, panicked
    config,      \* dbschema.config (IsMigrateData)
    registered,  \* database.manager.databases: name -> driver
    schemas,     \* dbschema.manager.schemas: name -> Schema (params, fields, dbs)
    tables,      \* the live databases: db name -> table name -> NoTable or column list
    connected,   \* databases whose Connect succeeded in this run
    todoDBs,     \* databases the connect loop has not visited yet
    todoSchemas, \* schemas the schema loop has not visited yet
    cur,         \* the schema the loop body is working on
    colInfo,     \* migrateSchema's colInfo
    newFields,   \* migrateSchema's newFields
    log,         \* calls made by this run of Init, in order
    stable,      \* the pass in progress follows a successful pass of the same schema on an unchanged table
    snap,        \* schema name -> table and fields as the last successful pass left them
    modelPool,   \* the models a restart may deploy
    runs,        \* process starts so far
    \* ---- getNewSchemaFields as a function
    diffIn,      \* the inputs of the last call
    diffOut,     \* its result
    \* ---- statement generation and execution
    op           \* the last Insert/Update call: inputs, statement, bound args, outcome

migVars == <<pc, config, registered, schemas, tables, connected, todoDBs, todoSchemas,
             cur, colInfo, newFields, log, stable, snap, modelPool, runs>>
diffVars == <<diffIn, diffOut>>
stmtVars == <<op>>
vars == <<migVars, diffVars, stmtVars>>

\* ------------------------------------------------------------------ helpers

Last(s) == s[Len(s)]

RECURSIVE Flatten(_)
Flatten(ss) == IF ss = <<>> THEN <<>> ELSE Head(ss) \o Flatten(Tail(ss))

\* strings.Repeat(piece, n) for a piece given as tokens; a negative count panics in Go
RECURSIVE Repeat(_, _)
Repeat(piece, n) == IF n <= 0 THEN <<>> ELSE piece \o Repeat(piece, n - 1)

\* strings.Join(parts, sep) as tokens
RECURSIVE Join(_, _)
Join(parts, sep) ==
    IF parts = <<>> THEN <<>>
    ELSE IF Len(parts) = 1 THEN <<parts[1]>>
    ELSE <<parts[1], sep>> \o Join(Tail(parts), sep)

Range(s) == {s[i] : i \in 1..Len(s)}

\* all sequences over S of length at most n
SeqsUpTo(S, n) == UNION {[1..k -> S] : k \in 0..n}

\* ------------------------------------------------------------------ schemafield

\* A struct tag value is kept as the list strings.Split(tag, ",") returns:
\* the empty tag is <<"">>.
EmptyTag == <<"">>

\* the model fields (reflect.StructField) schemas are built from
StructField(name, kind, db, type, key) ==
    [Name |-> name, Kind |-> kind, db |-> db, type |-> type, key |-> key,
     len |-> 0, def |-> "", comment |-> ""]

sfID     == StructField("ID", "int", <<"id">>, <<"bigint">>, <<"pk">>)
sfName   == StructField("Name", "ptr", <<"name">>, <<"varchar">>, EmptyTag)
sfNameTx == StructField("Name", "ptr", <<"name">>, <<"text">>, EmptyTag)
sfTitle  == StructField("Name", "ptr", <<"title">>, <<"varchar">>, EmptyTag)
sfAge    == StructField("Age", "int", <<"age", "nomigrate">>, <<"int", "unsigned">>, EmptyTag)
sfTmp    == StructField("Tmp", "int", <<"-">>, EmptyTag, EmptyTag)
sfNoType == StructField("Raw", "int", <<"raw">>, EmptyTag, EmptyTag)
sfBadPK  == StructField("Ref", "ptr", <<"ref">>, <<"bigint">>, <<"uniq", "pk">>)

StructFields == {sfID, sfName, sfNameTx, sfTitle, sfAge, sfTmp, sfNoType, sfBadPK}

\* Go struct types: field names are unique within a struct
Models == {m \in SeqsUpTo(StructFields, MaxFields) :
              \A i, j \in 1..Len(m) : i # j => m[i].Name # m[j].Name}

NullableKinds == {"ptr", "map", "interface"}

\* the SchemaField built for one mapped struct field
SchemaFieldOf(f) ==
    [Name         |-> f.Name,
     Migratable   |-> IF Len(f.db) = 2 THEN f.db[2] # "nomigrate" ELSE TRUE,
     DBName       |-> f.db[1],
     DBType       |-> f.type,
     Nullable     |-> f.Kind \in NullableKinds,
     IsPrimaryKey |-> f.key # EmptyTag /\ \E i \in 1..Len(f.key) : f.key[i] = "pk",
     Length       |-> f.len,
     Default      |-> f.def,
     Comment      |-> f.comment]

\* the loop of prepareSchemaFields from field i on, acc being the fields appended so far
RECURSIVE prepareSchemaFieldsLoop(_, _, _)
prepareSchemaFieldsLoop(model, i, acc) ==
    IF i > Len(model) THEN [err |-> "", fields |-> acc]
    ELSE LET f == model[i]
             field == SchemaFieldOf(f)
         IN  IF f.db = EmptyTag \/ f.db = <<"-">>
                THEN prepareSchemaFieldsLoop(model, i + 1, acc)
             ELSE IF f.type = EmptyTag
                THEN [err |-> "type is missing", fields |-> <<>>]
             ELSE IF field.IsPrimaryKey /\ field.Nullable
                THEN [err |-> "primary key is nullable", fields |-> <<>>]
             ELSE prepareSchemaFieldsLoop(model, i + 1, Append(acc, field))

prepareSchemaFields(model) == prepareSchemaFieldsLoop(model, 1, <<>>)

\* models NewSchema accepts
ValidModels == {m \in Models : prepareSchemaFields(m).err = ""}

\* ------------------------------------------------------------------ migration diff

\* DBColumnInfo as the catalog reports it
ColumnInfo(name, type) == [Name |-> name, Type |-> type]

isExistsIn(colInfos, f) == \E k \in 1..Len(colInfos) : colInfos[k].Name = f.DBName

RECURSIVE getNewSchemaFieldsLoop(_, _, _)
getNewSchemaFieldsLoop(fields, colInfos, i) ==
    IF i > Len(fields) THEN <<>>
    ELSE (IF isExistsIn(colInfos, fields[i]) THEN <<>> ELSE <<fields[i]>>)
         \o getNewSchemaFieldsLoop(fields, colInfos, i + 1)

getNewSchemaFields(fields, colInfos) ==
    IF Len(fields) = Len(colInfos) THEN <<>>
    ELSE getNewSchemaFieldsLoop(fields, colInfos, 1)

\* ------------------------------------------------------------------ DDL text

\* the backtick character, which a TLA+ string cannot hold
bq == "<backtick>"

Postgres == "postgres"
MySQL == "mysql"

\* fmt.Sprintf("(%d)", field.Length)
LengthClause(field) == IF field.Length > 0 THEN <<"(", ToString(field.Length), ")">> ELSE <<>>

NullClause(field) == IF field.Nullable THEN <<" NULL">> ELSE <<" NOT NULL">>

DefaultClause(field) == IF field.Default # "" THEN <<" DEFAULT ", field.Default>> ELSE <<>>

CommentClause(field) == IF field.Comment # "" THEN <<" COMMENT '", field.Comment, "'">> ELSE <<>>

\* postgreSQL.prepareColumn: the type tag is written as it stands
pgPrepareColumn(field) ==
    <<"\"", field.DBName, "\" ">> \o Join(field.DBType, ",") \o LengthClause(field)
    \o NullClause(field) \o DefaultClause(field) \o CommentClause(field)

\* mySQL.prepareColumn: the type tag is split at the comma, the second part is the qualifier
myPrepareColumn(field) ==
    <<bq, field.DBName, (bq \o " "), field.DBType[1]>> \o LengthClause(field)
    \o (IF Len(field.DBType) = 2 THEN <<" ", field.DBType[2]>> ELSE <<>>)
    \o NullClause(field) \o DefaultClause(field) \o CommentClause(field)

\* pgCreateColumns with the loop bound off by one: the last column is left out
RECURSIVE pgCreateColumnsShort(_, _)
pgCreateColumnsShort(fields, i) ==
    IF i >= Len(fields) THEN <<>>
    ELSE <<"\n">> \o pgPrepareColumn(fields[i])
         \o (IF i # Len(fields) - 1 THEN <<",">> ELSE <<>>)
         \o pgCreateColumnsShort(fields, i + 1)

RECURSIVE pgCreateColumns(_, _)
pgCreateColumns(fields, i) ==
    IF i > Len(fields) THEN <<>>
    ELSE <<"\n">> \o pgPrepareColumn(fields[i])
         \o (IF i # Len(fields) THEN <<",">> ELSE <<>>)
         \o pgCreateColumns(fields, i + 1)

RECURSIVE myCreateColumns(_, _)
myCreateColumns(fields, i) ==
    IF i > Len(fields) THEN <<>>
    ELSE <<"\n">> \o myPrepareColumn(fields[i])
         \o (IF i # Len(fields) THEN <<",">> ELSE <<>>)
         \o myCreateColumns(fields, i + 1)

\* the pks slice: the quoted names of the primary-key fields, in field order
RECURSIVE primaryKeys(_, _)
primaryKeys(fields, quote) ==
    IF fields = <<>> THEN <<>>
    ELSE (IF Head(fields).IsPrimaryKey THEN <<quote \o Head(fields).DBName \o quote>> ELSE <<>>)
         \o primaryKeys(Tail(fields), quote)

\* the PRIMARY KEY clause naming the first primary-key field only
PrimaryKeyClauseFirstOnly(pks) ==
    IF Len(pks) > 0 THEN <<",\nPRIMARY KEY (", pks[1], ")">> ELSE <<>>

PrimaryKeyClause(pks) ==
    IF Len(pks) > 0 THEN <<",\nPRIMARY KEY (">> \o Join(pks, ", ") \o <<")">> ELSE <<>>

pgPrepareCreateTableStmt(tableName, fields) ==
    <<"CREATE TABLE ", tableName, " (">> \o pgCreateColumns(fields, 1)
    \o PrimaryKeyClause(primaryKeys(fields, "\"")) \o <<"\n);">>

myPrepareCreateTableStmt(tableName, fields, engine) ==
    <<("CREATE TABLE " \o bq), tableName, (bq \o " (")>> \o myCreateColumns(fields, 1)
    \o PrimaryKeyClause(primaryKeys(fields, bq)) \o <<"\n)">>
    \o (IF engine # "" THEN <<" ENGINE=", engine>> ELSE <<>>)
    \o <<" DEFAULT CHARSET=utf8;">>

RECURSIVE pgAddColumns(_, _)
pgAddColumns(fields, i) ==
    IF i > Len(fields) THEN <<>>
    ELSE <<"\nADD COLUMN ">> \o pgPrepareColumn(fields[i])
         \o (IF i # Len(fields) THEN <<",">> ELSE <<>>)
         \o pgAddColumns(fields, i + 1)

pgPrepareAddColumnsStmt(tableName, fields) ==
    <<"ALTER TABLE ", tableName>> \o pgAddColumns(fields, 1) \o <<";">>

\* one ALTER TABLE statement per column
RECURSIVE myPrepareAddColumnsStmt(_, _)
myPrepareAddColumnsStmt(tableName, fields) ==
    IF fields = <<>> THEN <<>>
    ELSE <<("ALTER TABLE " \o bq), tableName, (bq \o " ADD ")>> \o myPrepareColumn(Head(fields)) \o <<";\n">>
         \o myPrepareAddColumnsStmt(tableName, Tail(fields))

\* the statement Database.CreateTable / Database.AlterTable hands to conn.Exec
CreateTableStmt(driver, tableName, fields) ==
    IF driver = Postgres THEN pgPrepareCreateTableStmt(tableName, fields)
    ELSE myPrepareCreateTableStmt(tableName, fields, "InnoDB")

AlterTableStmt(driver, tableName, fields) ==
    IF driver = Postgres THEN pgPrepareAddColumnsStmt(tableName, fields)
    ELSE myPrepareAddColumnsStmt(tableName, fields)

\* ------------------------------------------------------------------ the database server

NoTable == [exists |-> FALSE, cols |-> <<>>]
Table(cols) == [exists |-> TRUE, cols |-> cols]

Quotes == {"\"", bq}
CreateIntro == {"\n"}
AddIntro == {"\nADD COLUMN ", (bq \o " ADD ")}
DropIntro == {"\nDROP COLUMN ", (bq \o " DROP ")}

\* the column clauses of a statement that follow one of the introducing tokens
RECURSIVE ColumnClauses(_, _, _)
ColumnClauses(stmt, intro, i) ==
    IF i + 4 > Len(stmt) THEN <<>>
    ELSE (IF stmt[i] \in intro /\ stmt[i + 1] \in Quotes
             THEN <<ColumnInfo(stmt[i + 2], stmt[i + 4])>> ELSE <<>>)
         \o ColumnClauses(stmt, intro, i + 1)

HasDuplicates(cols) == \E i, j \in 1..Len(cols) : i # j /\ cols[i].Name = cols[j].Name

NamesOf(cols) == {cols[i].Name : i \in 1..Len(cols)}

KeepColumns(cols, dropped) == SelectSeq(cols, LAMBDA c : c.Name \notin dropped)

\* conn.Exec of a DDL statement: what the server does with the table
ExecDDL(table, stmt) ==
    IF stmt = <<>> THEN [err |-> "empty statement", table |-> table]
    ELSE IF stmt[1] \in {"CREATE TABLE ", ("CREATE TABLE " \o bq)} THEN
        LET cols == ColumnClauses(stmt, CreateIntro, 1)
        IN  IF table.exists \/ HasDuplicates(cols)
               THEN [err |-> "create failed", table |-> table]
               ELSE [err |-> "", table |-> Table(cols)]
    ELSE
        LET adds  == ColumnClauses(stmt, AddIntro, 1)
            drops == NamesOf(ColumnClauses(stmt, DropIntro, 1))
        IN  IF \/ ~table.exists
               \/ HasDuplicates(adds)
               \/ NamesOf(adds) \cap NamesOf(table.cols) # {}
               \/ ~(drops \subseteq NamesOf(table.cols))
               \/ (adds = <<>> /\ drops = {})
               THEN [err |-> "alter failed", table |-> table]
               ELSE [err |-> "", table |-> Table(KeepColumns(table.cols, drops) \o adds)]

\* ------------------------------------------------------------------ dbschema.Init

Schema(name, db, slaveName, tableName, model) ==
    [Name |-> name, DatabaseName |-> db, SlaveDatabaseName |-> slaveName,
     TableName |-> tableName, fields |-> prepareSchemaFields(model).fields,
     master |-> "", slave |-> ""]

\* database.Get: the registered name, or "" for nil
Get(name) == IF name \in DOMAIN registered THEN name ELSE ""

Event(o, who, ok, exists, fields) ==
    [op |-> o, who |-> who, ok |-> ok, exists |-> exists, fields |-> fields]

NoSnap == [valid |-> FALSE, table |-> NoTable, fields |-> <<>>]

curSchema == schemas[cur]
curTable == tables[curSchema.master][curSchema.TableName]
curDriver == registered[curSchema.master]

\* IsMigrateData taken as set whatever the config says
IsMigrateDataAlways(cfg) == TRUE

\* whether Init runs the data migration of a schema
IsMigrateData(cfg) == cfg.IsMigrateData

\* a failed data migration that Init lets pass
MigrateFailedIgnored(ok) == FALSE

\* Init's test of the error Migrate returned
MigrateFailed(ok) == ~ok

\* AlterTable called whatever the diff found
NeedsAlterAlways(nf) == TRUE

\* migrateSchema's test of the diff
NeedsAlter(nf) == Len(nf) > 0

RECURSIVE DropClauses(_, _)
DropClauses(colInfos, declared) ==
    IF colInfos = <<>> THEN <<>>
    ELSE (IF Head(colInfos).Name \in declared THEN <<>>
          ELSE <<"\nDROP COLUMN ", "\"", Head(colInfos).Name, "\" ", "", ",">>)
         \o DropClauses(Tail(colInfos), declared)

\* a migration that syncs the table to the model: live columns the model does not
\* declare are dropped, the new ones added
migrateAlterStmtSync(driver, tableName, fields, colInfos) ==
    <<"ALTER TABLE ", tableName>>
    \o DropClauses(colInfos, {fields[i].DBName : i \in 1..Len(fields)})
    \o pgAddColumns(getNewSchemaFields(fields, colInfos), 1) \o <<";">>

\* the statement migrateSchema has the engine execute on an existing table:
\* AlterTable with the diff of the declared fields against the live columns
migrateAlterStmt(driver, tableName, fields, colInfos) ==
    AlterTableStmt(driver, tableName, getNewSchemaFields(fields, colInfos))

\* Init stores the config and enters the connect loop
InitBegin ==
    /\ pc = "idle"
    /\ \E b \in BOOLEAN : config' = [IsMigrateData |-> b]
    /\ todoDBs' = DOMAIN registered
    /\ todoSchemas' = DOMAIN schemas
    /\ pc' = IF DOMAIN registered = {} THEN "schemas" ELSE "connect"
    /\ UNCHANGED <<registered, schemas, tables, connected, cur, colInfo, newFields,
                   log, stable, snap, modelPool, runs, diffVars, stmtVars>>

\* one iteration of the connect loop; Go visits the map in any order
Connect(d, ok) ==
    /\ pc = "connect"
    /\ d \in todoDBs
    /\ log' = Append(log, Event("Connect", d, ok, FALSE, <<>>))
    /\ IF ok
          THEN /\ connected' = connected \cup {d}
               /\ todoDBs' = todoDBs \ {d}
               /\ pc' = IF todoDBs' = {} THEN "schemas" ELSE "connect"
          ELSE /\ pc' = "panicked"
               /\ UNCHANGED <<connected, todoDBs>>
    /\ UNCHANGED <<config, registered, schemas, tables, todoSchemas, cur, colInfo,
                   newFields, stable, snap, modelPool, runs, diffVars, stmtVars>>

\* the head of the schema loop body: resolve and bind master and slave
BindSchema(s) ==
    /\ pc = "schemas"
    /\ s \in todoSchemas
    /\ LET master == Get(schemas[s].DatabaseName)
           slaveName == schemas[s].SlaveDatabaseName
           slave == Get(slaveName)
       IN  IF master = ""
              THEN /\ log' = Append(log, Event("BindMaster", s, FALSE, FALSE, <<>>))
                   /\ pc' = "panicked"
                   /\ UNCHANGED <<schemas, cur>>
           ELSE IF slaveName # "" /\ slave = ""
              THEN /\ log' = log \o <<Event("BindMaster", s, TRUE, FALSE, <<>>),
                                      Event("BindSlave", s, FALSE, FALSE, <<>>)>>
                   /\ schemas' = [schemas EXCEPT ![s].master = master]
                   /\ pc' = "panicked"
                   /\ UNCHANGED cur
           ELSE /\ log' = log \o <<Event("BindMaster", s, TRUE, FALSE, <<>>)>>
                         \o (IF slaveName # ""
                                THEN <<Event("BindSlave", s, TRUE, FALSE, <<>>)>> ELSE <<>>)
                /\ schemas' = [schemas EXCEPT ![s].master = master, ![s].slave = slave]
                /\ cur' = s
                /\ pc' = "isTableExists"
    /\ UNCHANGED <<config, registered, tables, connected, todoDBs, todoSchemas, colInfo,
                   newFields, stable, snap, modelPool, runs, diffVars, stmtVars>>

\* what Init does once migrateSchema has returned nil
AfterMigrateSchema(table) ==
    /\ snap' = [snap EXCEPT ![cur] = [valid |-> TRUE, table |-> table, fields |-> curSchema.fields]]
    /\ IF IsMigrateData(config)
          THEN pc' = "migrateData" /\ UNCHANGED todoSchemas
          ELSE pc' = "schemas" /\ todoSchemas' = todoSchemas \ {cur}

\* migrateSchema: db.IsTableExists; a failing catalog query panics inside the engine
IsTableExists(ok) ==
    /\ pc = "isTableExists"
    /\ log' = Append(log, Event("IsTableExists", cur, ok, ok /\ curTable.exists, <<>>))
    /\ colInfo' = <<>>
    /\ newFields' = <<>>
    /\ stable' = (snap[cur] = [valid |-> TRUE, table |-> curTable, fields |-> curSchema.fields])
    /\ pc' = IF ~ok THEN "panicked"
             ELSE IF curTable.exists THEN "getColumnsInfo" ELSE "createTable"
    /\ UNCHANGED <<config, registered, schemas, tables, connected, todoDBs, todoSchemas,
                   cur, snap, modelPool, runs, diffVars, stmtVars>>

\* migrateSchema: db.CreateTable with the schema's field list
CreateTable(ok) ==
    /\ pc = "createTable"
    /\ LET stmt == CreateTableStmt(curDriver, curSchema.TableName, curSchema.fields)
           res == IF ok THEN ExecDDL(curTable, stmt) ELSE [err |-> "exec failed", table |-> curTable]
       IN  /\ log' = Append(log, Event("CreateTable", cur, res.err = "", FALSE, curSchema.fields))
           /\ tables' = [tables EXCEPT ![curSchema.master][curSchema.TableName] = res.table]
           /\ IF res.err # ""
                 THEN pc' = "panicked" /\ UNCHANGED <<snap, todoSchemas>>
                 ELSE AfterMigrateSchema(res.table)
    /\ UNCHANGED <<config, registered, schemas, connected, todoDBs, cur, colInfo,
                   newFields, stable, modelPool, runs, diffVars, stmtVars>>

\* migrateSchema: db.GetColumnsInfo, then the diff
GetColumnsInfo(ok) ==
    /\ pc = "getColumnsInfo"
    /\ IF ~ok
          THEN /\ log' = Append(log, Event("GetColumnsInfo", cur, FALSE, FALSE, <<>>))
               /\ pc' = "panicked"
               /\ UNCHANGED <<colInfo, newFields, snap, todoSchemas>>
          ELSE /\ colInfo' = curTable.cols
               /\ newFields' = getNewSchemaFields(curSchema.fields, colInfo')
               /\ log' = Append(log, Event("GetColumnsInfo", cur, TRUE, FALSE, newFields'))
               /\ IF NeedsAlter(newFields')
                     THEN pc' = "alterTable" /\ UNCHANGED <<snap, todoSchemas>>
                     ELSE AfterMigrateSchema(curTable)
    /\ UNCHANGED <<config, registered, schemas, tables, connected, todoDBs, cur, stable,
                   modelPool, runs, diffVars, stmtVars>>

\* migrateSchema: db.AlterTable with the new fields
AlterTable(ok) ==
    /\ pc = "alterTable"
    /\ LET stmt == migrateAlterStmt(curDriver, curSchema.TableName, curSchema.fields, colInfo)
           res == IF ok THEN ExecDDL(curTable, stmt) ELSE [err |-> "exec failed", table |-> curTable]
       IN  /\ log' = Append(log, Event("AlterTable", cur, res.err = "", FALSE, newFields))
           /\ tables' = [tables EXCEPT ![curSchema.master][curSchema.TableName] = res.table]
           /\ IF res.err # ""
                 THEN pc' = "panicked" /\ UNCHANGED <<snap, todoSchemas>>
                 ELSE AfterMigrateSchema(res.table)
    /\ UNCHANGED <<config, registered, schemas, connected, todoDBs, cur, colInfo,
                   newFields, stable, modelPool, runs, diffVars, stmtVars>>

\* the data migration of the schema's master database (the external script runner)
Migrate(ok) ==
    /\ pc = "migrateData"
    /\ log' = Append(log, Event("Migrate", cur, ok, FALSE, <<>>))
    /\ IF MigrateFailed(ok)
          THEN pc' = "panicked" /\ UNCHANGED todoSchemas
          ELSE pc' = "schemas" /\ todoSchemas' = todoSchemas \ {cur}
    /\ UNCHANGED <<config, registered, schemas, tables, connected, todoDBs, cur, colInfo,
                   newFields, stable, snap, modelPool, runs, diffVars, stmtVars>>

\* the schema loop has visited every schema: Init returns
InitReturn ==
    /\ pc = "schemas"
    /\ todoSchemas = {}
    /\ pc' = "done"
    /\ UNCHANGED <<config, registered, schemas, tables, connected, todoDBs, todoSchemas,
                   cur, colInfo, newFields, log, stable, snap, modelPool, runs, diffVars, stmtVars>>

\* the process is started again, possibly with changed models: registration builds
\* the same registries with unbound schemas, the databases keep their tables
Restart ==
    /\ pc \in {"done", "panicked"}
    /\ runs < MaxRuns
    /\ runs' = runs + 1
    /\ \E m \in [DOMAIN schemas -> modelPool] :
          schemas' = [s \in DOMAIN schemas |->
                         [schemas[s] EXCEPT !.fields = prepareSchemaFields(m[s]).fields,
                                            !.master = "", !.slave = ""]]
    /\ pc' = "idle"
    /\ connected' = {}
    /\ todoDBs' = {}
    /\ todoSchemas' = {}
    /\ cur' = ""
    /\ colInfo' = <<>>
    /\ newFields' = <<>>
    /\ log' = <<>>
    /\ stable' = FALSE
    /\ UNCHANGED <<config, registered, tables, snap, modelPool, diffVars, stmtVars>>

MigNext ==
    \/ InitBegin
    \/ \E d \in DOMAIN registered, ok \in BOOLEAN : Connect(d, ok)
    \/ \E s \in DOMAIN schemas : BindSchema(s)
    \/ \E ok \in BOOLEAN : IsTableExists(ok)
    \/ \E ok \in BOOLEAN : CreateTable(ok)
    \/ \E ok \in BOOLEAN : GetColumnsInfo(ok)
    \/ \E ok \in BOOLEAN : AlterTable(ok)
    \/ \E ok \in BOOLEAN : Migrate(ok)
    \/ InitReturn
    \/ Restart

\* ---- the state after registration, before Init

\* the models deployed over time: fields added, removed, renamed (Name to title),
\* retyped (varchar to text), reordered, and one never to be migrated (age)
MigrationModels ==
    {<<>>, <<sfID>>, <<sfID, sfName>>, <<sfName, sfID>>, <<sfID, sfTitle>>,
     <<sfID, sfNameTx>>, <<sfID, sfAge>>, <<sfID, sfName, sfAge>>, <<sfTmp, sfName>>}

colID == ColumnInfo("id", "bigint")
colName == ColumnInfo("name", "varchar")
colLegacy == ColumnInfo("legacy", "int")

\* the table as the first run finds it
LiveTables ==
    {NoTable, Table(<<>>), Table(<<colID>>), Table(<<colLegacy>>),
     Table(<<colID, colName>>), Table(<<colLegacy, colID>>)}

IdleInit ==
    /\ pc = "idle"
    /\ config = [IsMigrateData |-> FALSE]
    /\ connected = {}
    /\ todoDBs = {}
    /\ todoSchemas = {}
    /\ cur = ""
    /\ colInfo = <<>>
    /\ newFields = <<>>
    /\ log = <<>>
    /\ stable = FALSE
    /\ runs = 1

OtherInit ==
    /\ diffIn = [fields |-> <<>>, colInfo |-> <<>>]
    /\ diffOut = [called |-> FALSE, result |-> <<>>]
    /\ op = [kind |-> "none"]

\* one registered database and one empty schema, Init not running
IdleRegistry ==
    /\ IdleInit
    /\ registered = [d \in {"main"} |-> Postgres]
    /\ modelPool = {<<>>}
    /\ schemas = [s \in {"s1"} |-> Schema("s1", "main", "", "t1", <<>>)]
    /\ tables = [d \in {"main"} |-> [n \in {"t1"} |-> NoTable]]
    /\ snap = [s \in {"s1"} |-> NoSnap]

\* one schema on one PostgreSQL database, any model, any live table
MigrateInit ==
    /\ IdleInit
    /\ registered = [d \in {"main"} |-> Postgres]
    /\ modelPool = MigrationModels
    /\ \E m \in MigrationModels :
          schemas = [s \in {"s1"} |-> Schema("s1", "main", "", "t1", m)]
    /\ \E t \in LiveTables : tables = [d \in {"main"} |-> [n \in {"t1"} |-> t]]
    /\ snap = [s \in {"s1"} |-> NoSnap]
    /\ OtherInit

SpecMigrate == MigrateInit /\ [][MigNext]_vars

\* two schemas on two databases (one PostgreSQL, one MySQL), some naming a
\* database that was never registered
InitModels == {<<sfID>>, <<sfID, sfName>>}

InitInit ==
    /\ IdleInit
    /\ registered = [d \in {"main", "replica"} |-> IF d = "main" THEN Postgres ELSE MySQL]
    /\ modelPool = InitModels
    /\ \E db1 \in {"main", "ghost"}, sl1 \in {"", "replica"}, sl2 \in {"", "ghost"}, m \in InitModels :
          schemas = [s \in {"s1", "s2"} |->
                        IF s = "s1" THEN Schema("s1", db1, sl1, "t1", m)
                        ELSE Schema("s2", "replica", sl2, "t2", <<sfID, sfName>>)]
    /\ \E t \in {NoTable, Table(<<colID>>)} :
          tables = [d \in {"main", "replica"} |->
                       [n \in {"t1", "t2"} |-> IF d = "main" /\ n = "t1" THEN t ELSE NoTable]]
    /\ snap = [s \in {"s1", "s2"} |-> NoSnap]
    /\ OtherInit

SpecInit == InitInit /\ [][MigNext]_vars

\* ------------------------------------------------------------------ the diff as a function

DeclaredLists == {prepareSchemaFields(m).fields : m \in ValidModels}
DiffColumns == {colID, colName, colLegacy, ColumnInfo("age", "int")}
ColumnLists == {c \in SeqsUpTo(DiffColumns, MaxLive) : ~HasDuplicates(c)}

\* the call: the result of getNewSchemaFields for the inputs Init drew
CallGetNewSchemaFields ==
    /\ ~diffOut.called
    /\ diffOut' = [called |-> TRUE, result |-> getNewSchemaFields(diffIn.fields, diffIn.colInfo)]
    /\ UNCHANGED <<diffIn, migVars, stmtVars>>

DiffInit ==
    /\ IdleRegistry
    /\ \E f \in DeclaredLists, c \in ColumnLists : diffIn = [fields |-> f, colInfo |-> c]
    /\ diffOut = [called |-> FALSE, result |-> <<>>]
    /\ op = [kind |-> "none"]

SpecDiff == DiffInit /\ [][CallGetNewSchemaFields]_vars

\* ------------------------------------------------------------------ SELECT query

\* A statement is the sequence of pieces written to the strings.Builder; a bind
\* placeholder is always a piece of its own.  A pointer that may be nil is a
\* list of at most one element.
Nil == <<>>
Ptr(x) == <<x>>

FromString(text) == [kind |-> "string", text |-> text]
FromAliased(alias, query) == [kind |-> "aliased", Alias |-> alias, Query |-> query]
FromOther == [kind |-> "other"]

Query(with, union, select, from, where, limit) ==
    [With |-> with, Union |-> union, Select |-> select, From |-> from, Join |-> "",
     Where |-> where, Group |-> "", Having |-> "", Order |-> "", Limit |-> limit, Offset |-> 0]

AliasedQuery(alias, query) == [Alias |-> alias, Query |-> query]
UnionClause(all, query) == [All |-> all, Query |-> query]

\* what a builder function returns: the pieces written and a nil error, or an error
Written(out) == [err |-> "", out |-> out]
Failed(msg) == [err |-> msg, out |-> <<>>]

FirstError(results) == results[CHOOSE i \in 1..Len(results) :
                                  results[i].err # "" /\ \A j \in 1..(i - 1) : results[j].err = ""]

\* the steps of a builder function in order: the first error returns at once
InOrder(results) ==
    IF \E i \in 1..Len(results) : results[i].err # ""
    THEN Failed(FirstError(results).err)
    ELSE Written(Flatten([i \in 1..Len(results) |-> results[i].out]))

OptionalClause(keyword, text) == IF text # "" THEN <<keyword, text>> ELSE <<>>
NumberClause(keyword, n) == IF n > 0 THEN <<keyword \o ToString(n)>> ELSE <<>>

\* the clauses after FROM with HAVING written whether or not GROUP BY is there,
\* and ahead of WHERE
selectClausesHavingFirst(st) ==
    (IF st.Join # "" THEN <<"\n", st.Join>> ELSE <<>>)
    \o OptionalClause("\nHAVING ", st.Having)
    \o OptionalClause("\nWHERE ", st.Where)
    \o OptionalClause("\nGROUP BY ", st.Group)
    \o OptionalClause("\nORDER BY ", st.Order)
    \o NumberClause("\nLIMIT ", st.Limit)
    \o NumberClause("\nOFFSET ", st.Offset)

\* prepareSelectStatement: JOIN, WHERE, GROUP BY, HAVING, ORDER BY, LIMIT, OFFSET
selectClauses(st) ==
    (IF st.Join # "" THEN <<"\n", st.Join>> ELSE <<>>)
    \o OptionalClause("\nWHERE ", st.Where)
    \o (IF st.Group # ""
        THEN <<"\nGROUP BY ", st.Group>> \o OptionalClause("\nHAVING ", st.Having)
        ELSE <<>>)
    \o OptionalClause("\nORDER BY ", st.Order)
    \o NumberClause("\nLIMIT ", st.Limit)
    \o NumberClause("\nOFFSET ", st.Offset)

RECURSIVE prepareSelectStatement(_)
prepareFromClause(cl) ==
    IF cl.kind = "string" THEN Written(<<"\nFROM ", cl.text>>)
    ELSE IF cl.kind # "aliased" THEN Failed("FROM clause must be string or *database.Query")
    ELSE IF cl.Alias = "" THEN Failed("the subquery in the FROM clause must have an alias")
    ELSE InOrder(<<Written(<<"\nFROM ", "(">>),
                   prepareSelectStatement(cl.Query),
                   Written(<<") AS " \o cl.Alias>>)>>)

prepareSelectStatement(st) ==
    InOrder(<<Written(<<"\nSELECT ", st.Select>>),
              prepareFromClause(st.From),
              Written(selectClauses(st))>>)

RECURSIVE prepareWithClauseLoop(_, _)
prepareWithClauseLoop(cl, i) ==
    IF i > Len(cl) THEN Written(<<>>)
    ELSE IF cl[i].Alias = "" THEN Failed("the subquery in the WITH clause must have an alias")
    ELSE InOrder(<<Written(<<" " \o cl[i].Alias \o " AS (">>),
                   prepareSelectStatement(cl[i].Query),
                   Written(<<")">> \o (IF i # Len(cl) THEN <<",">> ELSE <<>>)),
                   prepareWithClauseLoop(cl, i + 1)>>)

prepareWithClause(cl) == InOrder(<<Written(<<"WITH">>), prepareWithClauseLoop(cl, 1)>>)

\* the UNION keyword goes to a builder of its own, which is dropped: only the
\* SELECT statements reach the caller's builder
RECURSIVE prepareUnionClause(_)
prepareUnionClause(cl) ==
    InOrder(<<prepareSelectStatement(cl.Query),
              IF cl.Query.Union # Nil THEN prepareUnionClause(cl.Query.Union[1]) ELSE Written(<<>>)>>)

prepareQuery(q) ==
    InOrder(<<IF Len(q.With) > 0 THEN prepareWithClause(q.With) ELSE Written(<<>>),
              prepareSelectStatement(q),
              IF q.Union # Nil THEN prepareUnionClause(q.Union[1]) ELSE Written(<<>>)>>)

\* ------------------------------------------------------------------ INSERT and UPDATE statements

OnConflictDoNothing == 0

ConflictClause(object, strategy) == [Object |-> object, Strategy |-> strategy]
Returning(list, dests) == [list |-> list, dest |-> dests]
InsertExt(whereNotExists, onConflict, returning) ==
    [WhereNotExists |-> whereNotExists, OnConflict |-> onConflict, Returning |-> returning]
PreparedData(dbFields, values, queries, query) ==
    [DBFields |-> dbFields, Values |-> values, Queries |-> queries, Query |-> query]

RECURSIVE QuotedFields(_, _, _)
QuotedFields(quote, fields, i) ==
    IF i > Len(fields) THEN <<>>
    ELSE <<quote \o fields[i] \o quote>> \o (IF i # Len(fields) THEN <<",">> ELSE <<>>)
         \o QuotedFields(quote, fields, i + 1)

\* the loop writing "$argNum, $argNum+1, ..." for valsLen values
RECURSIVE pgValuePlaceholders(_, _, _)
pgValuePlaceholders(argNum, i, valsLen) ==
    IF i >= valsLen THEN <<>>
    ELSE <<"$" \o ToString(argNum)>> \o (IF i # valsLen - 1 THEN <<", ">> ELSE <<>>)
         \o pgValuePlaceholders(argNum + 1, i + 1, valsLen)

\* the first placeholder number of the WHERE NOT EXISTS form and of the VALUES form
pgWhereNotExistsArgNum(argsLen) == argsLen + 1
pgValuesArgNum(argsLen) == 1

IsWhereNotExists(ext) == ext # Nil /\ Len(ext[1].WhereNotExists) > 0

pgInsertSource(tableName, argsLen, valsLen, q, ext) ==
    IF q # Nil
    THEN InOrder(<<Written(<<"\n(">>), prepareQuery(q[1]), Written(<<")">>)>>)
    ELSE IF IsWhereNotExists(ext)
    THEN Written(<<"\nSELECT ">>
                 \o pgValuePlaceholders(pgWhereNotExistsArgNum(argsLen), 0, valsLen)
                 \o <<" WHERE NOT EXISTS\n(SELECT * FROM ", tableName, " WHERE ">>
                 \o ext[1].WhereNotExists \o <<")">>)
    ELSE Written(<<" VALUES (">>
                 \o pgValuePlaceholders(pgValuesArgNum(argsLen), 0, valsLen)
                 \o <<")">>)

pgInsertExtClauses(ext) ==
    IF ext = Nil THEN Written(<<>>)
    ELSE IF ext[1].OnConflict # Nil /\ ext[1].OnConflict[1].Strategy # OnConflictDoNothing
    THEN Failed("wrong ON CONFLICT strategy")
    ELSE Written((IF ext[1].OnConflict # Nil
                  THEN <<" ON CONFLICT (", ext[1].OnConflict[1].Object, ") DO ", "NOTHING">>
                  ELSE <<>>)
                 \o (IF ext[1].Returning # Nil
                     THEN <<"\nRETURNING ", ext[1].Returning[1].list>>
                     ELSE <<>>))

pgPrepareInsertStmt(tableName, fields, argsLen, valsLen, q, ext) ==
    InOrder(<<Written(<<"INSERT INTO ", tableName, " (">> \o QuotedFields("\"", fields, 1) \o <<")">>),
              pgInsertSource(tableName, argsLen, valsLen, q, ext),
              pgInsertExtClauses(ext),
              Written(<<";">>)>>)

\* strings.Repeat(piece, count), which panics on a negative count
RepeatOrPanic(piece, count) == IF count < 0 THEN Failed("panic") ELSE Written(Repeat(piece, count))

myInsertSource(tableName, argsLen, valsLen, q, ext) ==
    IF q # Nil
    THEN InOrder(<<Written(<<"\n(">>), prepareQuery(q[1]), Written(<<")">>)>>)
    ELSE IF IsWhereNotExists(ext)
    THEN InOrder(<<Written(<<"\nSELECT ">>),
                   RepeatOrPanic(<<"?", ", ">>, argsLen - 1),
                   Written(<<"?">>
                           \o <<" WHERE NOT EXISTS\n(SELECT * FROM " \o bq, tableName, bq \o " WHERE ">>
                           \o ext[1].WhereNotExists \o <<")">>)>>)
    ELSE InOrder(<<Written(<<" VALUES (">>),
                   RepeatOrPanic(<<"?">>, valsLen - 1),
                   Written(<<"?", ")">>)>>)

myPrepareInsertStmt(tableName, fields, argsLen, valsLen, q, ext) ==
    InOrder(<<Written(<<"INSERT INTO " \o bq, tableName, bq \o " (">>
                      \o QuotedFields(bq, fields, 1) \o <<")">>),
              myInsertSource(tableName, argsLen, valsLen, q, ext),
              IF ext # Nil /\ ext[1].OnConflict # Nil
              THEN Failed("MySQL does not support ON CONFLICT clause in INSERT statement")
              ELSE Written(<<";">>)>>)

\* the SET entries "field = (query)" in the order the map iteration yields them
RECURSIVE SetQueries(_, _, _)
SetQueries(quote, queries, i) ==
    IF i > Len(queries) THEN Written(<<>>)
    ELSE InOrder(<<Written(<<quote \o queries[i].field \o quote, " = (">>),
                   prepareQuery(queries[i].query),
                   Written(<<")">> \o (IF i # Len(queries) THEN <<", ">> ELSE <<>>)),
                   SetQueries(quote, queries, i + 1)>>)

SetQueriesClause(quote, queries) ==
    IF Len(queries) > 0
    THEN InOrder(<<Written(<<", ">>), SetQueries(quote, queries, 1)>>)
    ELSE Written(<<>>)

\* numbering the SET placeholders from one, whatever the WHERE text took
pgUpdateArgNumFromOne(argsLen) == 1

pgUpdateArgNum(argsLen) == argsLen + 1

RECURSIVE pgSetFields(_, _, _)
pgSetFields(fields, argNum, i) ==
    IF i > Len(fields) THEN <<>>
    ELSE <<fields[i], " = ", "$" \o ToString(argNum)>>
         \o (IF i # Len(fields) THEN <<", ">> ELSE <<>>)
         \o pgSetFields(fields, argNum + 1, i + 1)

pgPrepareUpdateStmt(tableName, where, argsLen, fields, queries, returning) ==
    InOrder(<<Written(<<"UPDATE ", tableName, " SET ">>
                      \o pgSetFields(fields, pgUpdateArgNum(argsLen), 1)),
              SetQueriesClause("", queries),
              Written(<<" WHERE ">> \o where
                      \o (IF Len(returning) = 1 THEN <<" RETURNING ", returning[1]>> ELSE <<>>)
                      \o <<";">>)>>)

RECURSIVE mySetFields(_, _)
mySetFields(fields, i) ==
    IF i > Len(fields) THEN <<>>
    ELSE <<bq \o fields[i] \o bq, " = ", "?">>
         \o (IF i # Len(fields) THEN <<", ">> ELSE <<>>)
         \o mySetFields(fields, i + 1)

myPrepareUpdateStmt(tableName, where, argsLen, fields, queries) ==
    InOrder(<<Written(<<"UPDATE " \o bq, tableName, bq \o " SET ">> \o mySetFields(fields, 1)),
              SetQueriesClause(bq, queries),
              Written(<<" WHERE ">> \o where \o <<";">>)>>)

\* ------------------------------------------------------------------ Insert and Update handlers

\* one call on the connection or on the transaction
DBCall(on, call, query, args) == [on |-> on, call |-> call, query |-> query, args |-> args]
Plain(on, call) == DBCall(on, call, <<>>, <<>>)
\* every statement sent to the pooled connection
TargetPool(tx) == "conn"

\* the handle a statement is run on: the caller's transaction when there is one
Target(tx) == IF tx THEN "tx" ELSE "conn"

Call(driver, method, tx, args, prepared, ext, where, ret) ==
    [kind |-> "call", driver |-> driver, method |-> method, tx |-> tx, tableName |-> "t1",
     args |-> args, prepared |-> prepared, ext |-> ext, where |-> where, ret |-> ret]
Done(call, err, calls) == [kind |-> "done", call |-> call, err |-> err, calls |-> calls]

IsCall(driver, method) == op.kind = "call" /\ op.driver = driver /\ op.method = method

\* what the database answers to a statement
ExecErrors == {"", "database error"}

\* every order in which a map iteration can yield the entries
Orders(entries) == {s \in [1..Cardinality(entries) -> entries] : Range(s) = entries}

\* the part of Insert after the statement was built
pgInsertExec(call, built, allArgs, isRet, dbErr) ==
    IF built.err # "" THEN Done(call, built.err, <<>>)
    ELSE IF isRet /\ call.ext[1].Returning[1].dest = 0
    THEN Done(call, "missing destinations for RETURNING clause", <<>>)
    ELSE Done(call, dbErr, <<DBCall(Target(call.tx), IF isRet THEN "QueryRowx" ELSE "Exec",
                                    built.out, allArgs)>>)

pgInsert(call, dbErr) ==
    pgInsertExec(call,
                 pgPrepareInsertStmt(call.tableName, call.prepared.DBFields, Len(call.args),
                                     Len(call.prepared.Values), call.prepared.Query, call.ext),
                 call.args \o call.prepared.Values,
                 call.ext # Nil /\ call.ext[1].Returning # Nil,
                 dbErr)

PgInsert ==
    /\ IsCall(Postgres, "Insert")
    /\ \E dbErr \in ExecErrors : op' = pgInsert(op, dbErr)
    /\ UNCHANGED <<migVars, diffVars>>

\* the part of Update after the statement was built
pgUpdateExec(call, built, allArgs, dbErr) ==
    IF call.ret # Nil /\ call.ret[1].dest = 0
    THEN Done(call, "missing destinations for RETURNING clause", <<>>)
    ELSE IF built.err # "" THEN Done(call, built.err, <<>>)
    ELSE Done(call, dbErr, <<DBCall(Target(call.tx), IF call.ret # Nil THEN "QueryRowx" ELSE "Exec",
                                    built.out, allArgs)>>)

pgUpdate(call, queries, dbErr) ==
    pgUpdateExec(call,
                 pgPrepareUpdateStmt(call.tableName, call.where, Len(call.args), call.prepared.DBFields,
                                     queries, IF call.ret # Nil THEN <<call.ret[1].list>> ELSE <<>>),
                 call.args \o call.prepared.Values,
                 dbErr)

PgUpdate ==
    /\ IsCall(Postgres, "Update")
    /\ \E queries \in Orders(op.prepared.Queries), dbErr \in ExecErrors :
          op' = pgUpdate(op, queries, dbErr)
    /\ UNCHANGED <<migVars, diffVars>>

\* the emulated RETURNING with the failure of the id read returned at once,
\* the transaction left as it is
MyReturningCallsNoRollback(tx, exec, select, failAt) ==
    IF tx
    THEN IF failAt = "exec" THEN <<exec>> ELSE <<exec, select>>
    ELSE IF failAt = "begin" THEN <<Plain("conn", "Begin")>>
    ELSE IF failAt = "exec" THEN <<Plain("conn", "Begin"), exec, Plain("tx", "Rollback")>>
    ELSE IF failAt = "select" THEN <<Plain("conn", "Begin"), exec, select>>
    ELSE IF failAt = "commit"
    THEN <<Plain("conn", "Begin"), exec, select, Plain("tx", "Commit"), Plain("tx", "Rollback")>>
    ELSE <<Plain("conn", "Begin"), exec, select, Plain("tx", "Commit")>>

\* the calls of the emulated RETURNING when the step named by failAt fails
MyReturningCalls(tx, exec, select, failAt) ==
    IF tx
    THEN IF failAt = "exec" THEN <<exec>> ELSE <<exec, select>>
    ELSE IF failAt = "begin" THEN <<Plain("conn", "Begin")>>
    ELSE IF failAt = "exec" THEN <<Plain("conn", "Begin"), exec, Plain("tx", "Rollback")>>
    ELSE IF failAt = "select" THEN <<Plain("conn", "Begin"), exec, select, Plain("tx", "Rollback")>>
    ELSE IF failAt = "commit"
    THEN <<Plain("conn", "Begin"), exec, select, Plain("tx", "Commit"), Plain("tx", "Rollback")>>
    ELSE <<Plain("conn", "Begin"), exec, select, Plain("tx", "Commit")>>

\* the database step that fails, if any
MyFailPoints == {"", "begin", "exec", "select", "commit"}
MyFails(tx, failAt) == failAt \in (IF tx THEN {"exec", "select"} ELSE MyFailPoints \ {""})

\* the part of Insert after the statement was built
myInsertExec(call, built, allArgs, isRet, failAt) ==
    IF built.err # "" THEN Done(call, built.err, <<>>)
    ELSE IF isRet /\ call.ext[1].Returning[1].dest > 1
    THEN Done(call, "MySQL supports only last insert ID returning", <<>>)
    ELSE IF isRet
    THEN Done(call, IF MyFails(call.tx, failAt) THEN "database error" ELSE "",
              MyReturningCalls(call.tx, DBCall("tx", "Exec", built.out, allArgs),
                               DBCall("tx", "Select", <<"SELECT LAST_INSERT_ID();">>, <<>>), failAt))
    ELSE Done(call, IF failAt = "exec" THEN "database error" ELSE "",
              <<DBCall(Target(call.tx), "Exec", built.out, allArgs)>>)

myInsert(call, failAt) ==
    myInsertExec(call,
                 myPrepareInsertStmt(call.tableName, call.prepared.DBFields, Len(call.args),
                                     Len(call.prepared.Values), call.prepared.Query, call.ext),
                 call.prepared.Values \o call.args,
                 call.ext # Nil /\ call.ext[1].Returning # Nil,
                 failAt)

MyInsert ==
    /\ IsCall(MySQL, "Insert")
    /\ \E failAt \in MyFailPoints : op' = myInsert(op, failAt)
    /\ UNCHANGED <<migVars, diffVars>>

\* the part of Update after the statement was built
myUpdateExec(call, built, allArgs, dbErr) ==
    IF built.err # "" THEN Done(call, built.err, <<>>)
    ELSE Done(call, dbErr, <<DBCall(Target(call.tx), "Exec", built.out, allArgs)>>)

myUpdate(call, queries, dbErr) ==
    IF call.ret # Nil
    THEN Done(call, "MySQL does not support RETURNING clause in UPDATE statement", <<>>)
    ELSE myUpdateExec(call,
                      myPrepareUpdateStmt(call.tableName, call.where, Len(call.args),
                                          call.prepared.DBFields, queries),
                      call.prepared.Values \o call.args,
                      dbErr)

MyUpdate ==
    /\ IsCall(MySQL, "Update")
    /\ \E queries \in Orders(op.prepared.Queries), dbErr \in ExecErrors :
          op' = myUpdate(op, queries, dbErr)
    /\ UNCHANGED <<migVars, diffVars>>

pgPrepareDeleteStmt(tableName, where, returning) ==
    <<"DELETE FROM ", tableName, " WHERE ">> \o where
    \o (IF Len(returning) = 1 THEN <<" RETURNING ", returning[1]>> ELSE <<>>)
    \o <<";">>

pgDelete(call, dbErr) ==
    IF call.ret # Nil /\ call.ret[1].dest = 0
    THEN Done(call, "missing destinations for RETURNING clause", <<>>)
    ELSE IF call.ret # Nil
    THEN Done(call, dbErr, <<DBCall(Target(call.tx), "QueryRowx",
                                    pgPrepareDeleteStmt(call.tableName, call.where, <<call.ret[1].list>>),
                                    call.args)>>)
    ELSE Done(call, dbErr, <<DBCall(Target(call.tx), "Exec",
                                    pgPrepareDeleteStmt(call.tableName, call.where, <<>>), call.args)>>)

PgDelete ==
    /\ IsCall(Postgres, "Delete")
    /\ \E dbErr \in ExecErrors : op' = pgDelete(op, dbErr)
    /\ UNCHANGED <<migVars, diffVars>>

myPrepareDeleteStmt(tableName, where) ==
    <<"DELETE FROM " \o bq, tableName, bq \o " WHERE ">> \o where \o <<";">>

myDelete(call, dbErr) ==
    IF call.ret # Nil
    THEN Done(call, "MySQL does not support RETURNING clause in DELETE statement", <<>>)
    ELSE Done(call, dbErr, <<DBCall(Target(call.tx), "Exec",
                                    myPrepareDeleteStmt(call.tableName, call.where), call.args)>>)

MyDelete ==
    /\ IsCall(MySQL, "Delete")
    /\ \E dbErr \in ExecErrors : op' = myDelete(op, dbErr)
    /\ UNCHANGED <<migVars, diffVars>>

\* what a read leaves behind: the Query object as the call left it, the
\* statement it compiled, the error it returned and the calls it made
Read(query, built, err, calls) == [query |-> query, built |-> built, err |-> err, calls |-> calls]

\* Select and Get of both engines after the statement was built
dbRead(tx, method, query, built, args, dbErr) ==
    IF built.err # "" THEN Read(query, built, built.err, <<>>)
    ELSE Read(query, built, dbErr, <<DBCall(Target(tx), method, built.out, args)>>)

dbSelect(tx, query, args, dbErr) == dbRead(tx, "Select", query, prepareQuery(query), args, dbErr)

dbGetLimited(tx, query, args, dbErr) == dbRead(tx, "Get", query, prepareQuery(query), args, dbErr)
dbGet(tx, query, args, dbErr) == dbGetLimited(tx, [query EXCEPT !.Limit = 1], args, dbErr)

ReadCall(driver, method, tx, args, query) ==
    [kind |-> "call", driver |-> driver, method |-> method, tx |-> tx, tableName |-> "t1",
     args |-> args, prepared |-> Nil, ext |-> Nil, where |-> <<>>, ret |-> Nil, query |-> query]

DoneRead(call, read) == Done(call, read.err, read.calls)

\* Select of either engine
EngineSelect ==
    /\ op.kind = "call" /\ op.method = "Select"
    /\ \E dbErr \in ExecErrors : op' = DoneRead(op, dbSelect(op.tx, op.query, op.args, dbErr))
    /\ UNCHANGED <<migVars, diffVars>>

\* Get of either engine
EngineGet ==
    /\ op.kind = "call" /\ op.method = "Get"
    /\ \E dbErr \in ExecErrors : op' = DoneRead(op, dbGet(op.tx, op.query, op.args, dbErr))
    /\ UNCHANGED <<migVars, diffVars>>

StmtNext ==
    \/ PgInsert \/ PgUpdate \/ PgDelete \/ MyInsert \/ MyUpdate \/ MyDelete
    \/ EngineSelect \/ EngineGet

\* the calls Init draws: caller args, prepared values or queries, extensions
Args(a) == [i \in 1..a |-> <<"arg", i>>]
Values(v) == [j \in 1..v |-> <<"value", j>>]
DBFields(v) == [j \in 1..v |-> "c" \o ToString(j)]

\* a WHERE text of the caller with one placeholder per arg, in the dialect's syntax
WhereText(driver, a) ==
    IF a = 0 THEN <<"TRUE">>
    ELSE Join([i \in 1..a |-> IF driver = Postgres THEN "$" \o ToString(i) ELSE "?"], " AND ")

qSimple == Query(<<>>, Nil, "id", FromString("t2"), "", 0)
qNoAlias == Query(<<>>, Nil, "*", FromAliased("", qSimple), "", 0)
qUnion == Query(<<>>, Ptr(UnionClause(TRUE, qSimple)), "*", FromString("t3"), "x > 1", 5)
qWith == Query(<<AliasedQuery("w", qSimple)>>, Nil, "", FromAliased("s", qSimple), "", 0)
QueryPool == {qSimple, qNoAlias, qUnion, qWith}

SetQueryPool == {[field |-> "q1", query |-> qSimple], [field |-> "q2", query |-> qUnion],
                 [field |-> "q3", query |-> qNoAlias]}

InsertExts(driver, a) ==
    {Nil} \cup
    {Ptr(InsertExt(w, oc, r)) :
        w \in {<<>>, WhereText(driver, a)},
        oc \in {Nil, Ptr(ConflictClause("id", OnConflictDoNothing)),
                Ptr(ConflictClause("id", OnConflictDoNothing + 1))},
        r \in {Nil} \cup {Ptr(Returning("id", d)) : d \in 0..2}}

InsertData ==
    {PreparedData(DBFields(v), Values(v), {}, Nil) : v \in 0..MaxVals}
    \cup {PreparedData(<<>>, <<>>, {}, Ptr(q)) : q \in QueryPool}

UpdateData ==
    {PreparedData(DBFields(v), Values(v), qs, Nil) :
        v \in 0..MaxVals, qs \in {s \in SUBSET SetQueryPool : Cardinality(s) <= 2}}

StmtCalls ==
    UNION {{Call(driver, "Insert", tx, Args(a), data, ext, <<>>, Nil) :
                data \in InsertData, ext \in InsertExts(driver, a)}
           \cup {Call(driver, "Update", tx, Args(a), data, Nil, WhereText(driver, a), ret) :
                data \in UpdateData, ret \in {Nil, Ptr(Returning("id", 0)), Ptr(Returning("id", 1))}}
           \cup {Call(driver, "Delete", tx, Args(a), Nil, Nil, WhereText(driver, a), ret) :
                ret \in {Nil} \cup {Ptr(Returning("id", d)) : d \in 0..2}}
           \cup {ReadCall(driver, method, tx, Args(a), q) : method \in {"Select", "Get"}, q \in QueryPool} :
           driver \in {Postgres, MySQL}, tx \in BOOLEAN, a \in 0..MaxArgs}

StmtInit ==
    /\ IdleRegistry
    /\ diffIn = [fields |-> <<>>, colInfo |-> <<>>]
    /\ diffOut = [called |-> FALSE, result |-> <<>>]
    /\ op \in StmtCalls

SpecStmt == StmtInit /\ [][StmtNext]_vars

\* ------------------------------------------------------------------ query compilation as a function

\* a SELECT over a table, without WITH, UNION or optional clauses
Leaf(select, table) == Query(<<>>, Nil, select, FromString(table), "", 0)

WithClauses(q, join, where, group, having, order, limit, offset) ==
    [q EXCEPT !.Join = join, !.Where = where, !.Group = group, !.Having = having,
              !.Order = order, !.Limit = limit, !.Offset = offset]

\* every combination of the optional clauses; LIMIT and OFFSET also negative
ClauseQueries ==
    {WithClauses(Leaf("a", "t1"), join, where, group, having, order, limit, offset) :
        join \in {"", "JOIN t2 ON x = y"}, where \in {"", "a > 1"}, group \in {"", "a"},
        having \in {"", "count(a) > 1"}, order \in {"", "a DESC"},
        limit \in {-1, 0, 10}, offset \in {-1, 0, 20}}

SubQueries == {Leaf("b", "t2")}
Aliases == {"", "s"}

\* the queries one level above the queries of S: each slot empty or holding one of S
OneLevel(S) ==
    {Query(with, union, "a", from, "", 0) :
        with \in {<<>>} \cup {<<AliasedQuery(a, q)>> : a \in Aliases, q \in S},
        union \in {Nil} \cup {Ptr(UnionClause(all, q)) : all \in BOOLEAN, q \in S},
        from \in {FromString("t1"), FromOther} \cup {FromAliased(a, q) : a \in Aliases, q \in S}}

\* the queries with one slot holding a query of S, the other slots plain
OneSlot(S) ==
    {Query(<<AliasedQuery(a, q)>>, Nil, "a", FromString("t1"), "", 0) : a \in Aliases, q \in S}
    \cup {Query(<<AliasedQuery("w", Leaf("c", "t3")), AliasedQuery(a, q)>>, Nil, "a", FromString("w"), "", 0) :
             a \in Aliases, q \in S}
    \cup {Query(<<>>, Ptr(UnionClause(all, q)), "a", FromString("t1"), "", 0) : all \in BOOLEAN, q \in S}
    \cup {Query(<<>>, Nil, "a", FromAliased(a, q), "", 0) : a \in Aliases, q \in S}

\* query trees nested at most depth levels deep
RECURSIVE QueryTrees(_)
QueryTrees(depth) ==
    IF depth <= 1 THEN OneLevel(SubQueries)
    ELSE QueryTrees(depth - 1) \cup OneSlot(QueryTrees(depth - 1))

CompileInputs == ClauseQueries \cup QueryTrees(MaxDepth)

\* the call: prepareQuery on the query Init drew
CallPrepareQuery ==
    /\ op.kind = "query"
    /\ op' = [kind |-> "compiled", q |-> op.q, res |-> prepareQuery(op.q)]
    /\ UNCHANGED <<migVars, diffVars>>

QueryInit ==
    /\ IdleRegistry
    /\ diffIn = [fields |-> <<>>, colInfo |-> <<>>]
    /\ diffOut = [called |-> FALSE, result |-> <<>>]
    /\ \E q \in CompileInputs : op = [kind |-> "query", q |-> q]

SpecQuery == QueryInit /\ [][CallPrepareQuery]_vars

\* ------------------------------------------------------------------ PrepareData

\* the data a caller hands to Insert and Update
DataQuery(pointer, q) == [kind |-> IF pointer THEN "*Query" ELSE "Query", q |-> q]
DataMap(entries) == [kind |-> "map", entries |-> entries]
DataStruct(fields) == [kind |-> "struct", fields |-> fields]
DataOther == [kind |-> "int"]
DataNil == [kind |-> "nil"]
DataPointer(elem) == [kind |-> "ptr", elem |-> elem]

\* a map entry: a plain value or a *Query; a struct field: name, db tag, value
MapValue(v) == [isQuery |-> FALSE, v |-> v]
MapQuery(q) == [isQuery |-> TRUE, v |-> q]
DataField(name, db, v, zero) == [Name |-> name, db |-> db, v |-> v, zero |-> zero]

\* the map entry for a schema field: by column name, then by struct field name
MapKey(data, f) == IF f.DBName \in DOMAIN data THEN f.DBName ELSE f.Name
InMap(data, f) == f.DBName \in DOMAIN data \/ f.Name \in DOMAIN data

RECURSIVE prepareValsMapLoop(_, _, _, _)
prepareValsMapLoop(data, fields, i, prepared) ==
    IF i > Len(fields) THEN prepared
    ELSE IF ~InMap(data, fields[i]) THEN prepareValsMapLoop(data, fields, i + 1, prepared)
    ELSE IF data[MapKey(data, fields[i])].isQuery
    THEN prepareValsMapLoop(data, fields, i + 1,
             [prepared EXCEPT !.Queries =
                 {e \in @ : e.field # fields[i].DBName}
                 \cup {[field |-> fields[i].DBName, query |-> data[MapKey(data, fields[i])].v]}])
    ELSE prepareValsMapLoop(data, fields, i + 1,
             [prepared EXCEPT !.DBFields = Append(@, fields[i].DBName),
                              !.Values = Append(@, data[MapKey(data, fields[i])].v)])

prepareValsMap(data, fields) ==
    prepareValsMapLoop(data, fields, 1, PreparedData(<<>>, <<>>, {}, Nil))

IsFieldExistsByDBName(fields, dbName) == \E i \in 1..Len(fields) : fields[i].DBName = dbName

RECURSIVE prepareValsStructLoop(_, _, _, _)
prepareValsStructLoop(data, fields, i, prepared) ==
    IF i > Len(data) THEN prepared
    ELSE IF data[i].db = EmptyTag \/ data[i].db = <<"-">>
            \/ ~IsFieldExistsByDBName(fields, data[i].db[1]) \/ data[i].zero
    THEN prepareValsStructLoop(data, fields, i + 1, prepared)
    ELSE prepareValsStructLoop(data, fields, i + 1,
             [prepared EXCEPT !.DBFields = Append(@, data[i].db[1]),
                              !.Values = Append(@, data[i].v)])

prepareValsStruct(data, fields) ==
    prepareValsStructLoop(data, fields, 1, PreparedData(<<>>, <<>>, {}, Nil))

PrepareData(data, fields) ==
    IF data.kind \in {"Query", "*Query"}
    THEN [err |-> "", prepared |-> PreparedData(<<>>, <<>>, {}, Ptr(data.q))]
    ELSE IF data.kind = "map" THEN [err |-> "", prepared |-> prepareValsMap(data.entries, fields)]
    ELSE IF data.kind = "struct" THEN [err |-> "", prepared |-> prepareValsStruct(data.fields, fields)]
    ELSE IF data.kind = "nil" \/ (data.kind = "ptr" /\ data.elem = Nil)
    THEN [err |-> "panic", prepared |-> Nil]
    ELSE IF data.kind = "ptr" /\ data.elem[1].kind = "struct"
    THEN [err |-> "", prepared |-> prepareValsStruct(data.elem[1].fields, fields)]
    ELSE [err |-> "wrong data type: need struct, database.Query or map[string]interface{}, got int",
          prepared |-> Nil]

\* ------------------------------------------------------------------ Schema operations

FromNil == [kind |-> "nil"]

SetDefaults(q, tableName) ==
    [q EXCEPT !.Select = IF @ = "" THEN "*" ELSE @,
              !.From = IF @ = FromNil THEN FromString(tableName) ELSE @]

\* the engine reads go to, with the slave never used
readEngineMaster(s) == s.master

\* _select, get: the slave when one is bound, else the master
readEngine(s) == IF s.slave # "" THEN s.slave ELSE s.master

ReadMethods == {"Select", "TransactSelect", "SelectOne", "TransactSelectOne"}
InsertMethods == {"Insert", "TransactInsert"}
UpdateMethods == {"Update", "TransactUpdate", "UpdateRet", "TransactUpdateRet"}
IsTransact(method) == method \in {"TransactSelect", "TransactSelectOne", "TransactInsert",
                                  "TransactUpdate", "TransactUpdateRet"}

schemaSelect(s, tx, query, args, dbErr) == dbSelect(tx, SetDefaults(query, s.TableName), args, dbErr)
schemaGet(s, tx, query, args, dbErr) == dbGet(tx, SetDefaults(query, s.TableName), args, dbErr)

schemaRead(s, method, query, args, dbErr) ==
    IF method \in {"Select", "TransactSelect"}
    THEN schemaSelect(s, IsTransact(method), query, args, dbErr)
    ELSE schemaGet(s, IsTransact(method), query, args, dbErr)

\* the record of one Schema call: the engine it went to ("" when it reached
\* none), the error it returned and the calls the engine made
Routed(schema, method, on, built, err, calls) ==
    [schema |-> schema, method |-> method, on |-> on, built |-> built, err |-> err, calls |-> calls]

NoReads == [schemas |-> {}, one |-> FALSE]

SchemaCall(query, fresh, last, before) ==
    [kind |-> "schema", query |-> query, fresh |-> fresh, last |-> last, before |-> before]

\* the reads made so far, the last call included when it is a read
ReadsSoFar ==
    IF op.last # Nil /\ op.last[1].method \in ReadMethods
    THEN [schemas |-> op.before.schemas \cup {op.last[1].schema},
          one |-> op.before.one \/ op.last[1].method \in {"SelectOne", "TransactSelectOne"}]
    ELSE op.before

AfterRead(name, method, read) ==
    SchemaCall(read.query, op.fresh,
               Ptr(Routed(name, method, readEngine(schemas[name]), read.built, read.err, read.calls)),
               ReadsSoFar)

\* Select, TransactSelect, SelectOne, TransactSelectOne with the caller's Query object
SchemaRead ==
    /\ op.kind = "schema"
    /\ \E name \in DOMAIN schemas, method \in ReadMethods, dbErr \in ExecErrors :
          op' = AfterRead(name, method, schemaRead(schemas[name], method, op.query, <<>>, dbErr))
    /\ UNCHANGED <<migVars, diffVars>>

AfterWrite(name, method, on, done) ==
    SchemaCall(op.query, op.fresh, Ptr(Routed(name, method, on, Nil, done.err, done.calls)), ReadsSoFar)

engineInsert(driver, call, dbErr) ==
    IF driver = Postgres THEN pgInsert(call, dbErr)
    ELSE myInsert(call, IF dbErr # "" THEN "exec" ELSE "")

schemaInsert(s, tx, prepared, ext, args, dbErr) ==
    IF prepared.err # "" THEN [on |-> "", done |-> Done(Nil, prepared.err, <<>>)]
    ELSE [on |-> s.master,
          done |-> engineInsert(registered[s.master],
                                [Call(registered[s.master], "Insert", tx, args, prepared.prepared, ext, <<>>, Nil)
                                    EXCEPT !.tableName = s.TableName],
                                dbErr)]

WriteAs(name, method, routed) == op' = AfterWrite(name, method, routed.on, routed.done)

engineUpdate(driver, call, queries, dbErr) ==
    IF driver = Postgres THEN pgUpdate(call, queries, dbErr) ELSE myUpdate(call, queries, dbErr)

schemaUpdateOn(s, call, queries, dbErr) ==
    [on |-> s.master, done |-> engineUpdate(registered[s.master], call, queries, dbErr)]

schemaUpdate(s, tx, prepared, where, ret, args, queries, dbErr) ==
    IF prepared.err # "" THEN [on |-> "", done |-> Done(Nil, prepared.err, <<>>)]
    ELSE schemaUpdateOn(s, [Call(registered[s.master], "Update", tx, args, prepared.prepared, Nil, where, ret)
                               EXCEPT !.tableName = s.TableName],
                        queries, dbErr)

\* Update and TransactUpdate pass no RETURNING request on
UpdateRet(method, ret) == IF method \in {"UpdateRet", "TransactUpdateRet"} THEN ret ELSE Nil

PreparedQueries(prepared) == IF prepared.err # "" THEN {} ELSE prepared.prepared.Queries

\* the data callers write: for a schema with the columns id and name
WriteData ==
    {DataMap([k \in {"id", "Name"} |-> IF k = "id" THEN MapValue("v1") ELSE MapQuery(qSimple)]),
     DataStruct(<<DataField("ID", <<"id">>, "v1", FALSE), DataField("Name", <<"name">>, "", TRUE),
                  DataField("Tmp", <<"-">>, "v3", FALSE)>>),
     DataOther}

\* Insert, TransactInsert
SchemaInsert ==
    /\ op.kind = "schema"
    /\ \E name \in DOMAIN schemas, method \in InsertMethods, data \in WriteData, ext \in {Nil},
          dbErr \in ExecErrors :
           WriteAs(name, method,
                   schemaInsert(schemas[name], IsTransact(method),
                                PrepareData(data, schemas[name].fields), ext, <<>>, dbErr))
    /\ UNCHANGED <<migVars, diffVars>>

UpdateWith(name, method, prepared, ret) ==
    \E queries \in Orders(PreparedQueries(prepared)), dbErr \in ExecErrors :
        WriteAs(name, method,
                schemaUpdate(schemas[name], IsTransact(method), prepared, <<"TRUE">>,
                             UpdateRet(method, ret), <<>>, queries, dbErr))

\* Update, TransactUpdate, UpdateRet, TransactUpdateRet
SchemaUpdate ==
    /\ op.kind = "schema"
    /\ \E name \in DOMAIN schemas, method \in UpdateMethods, data \in WriteData,
          ret \in {Ptr(Returning("id", 1))} :
           UpdateWith(name, method, PrepareData(data, schemas[name].fields), ret)
    /\ UNCHANGED <<migVars, diffVars>>

SchemaBeginTransaction ==
    /\ op.kind = "schema"
    /\ \E name \in DOMAIN schemas, dbErr \in ExecErrors :
          op' = AfterWrite(name, "BeginTransaction", schemas[name].master,
                           Done(Nil, dbErr, <<Plain("conn", "Beginx")>>))
    /\ UNCHANGED <<migVars, diffVars>>

SchemaNext == SchemaRead \/ SchemaInsert \/ SchemaUpdate \/ SchemaBeginTransaction

\* the Query objects callers build: projection, FROM and LIMIT set or left empty
CallerQueries ==
    {Query(<<>>, Nil, "", FromNil, "", 0), Query(<<>>, Nil, "", FromNil, "id > 1", 5),
     Query(<<>>, Nil, "id", FromNil, "", 0), Query(<<>>, Nil, "id", FromString("v1"), "", 5)}

Bound(s, master, slave) == [s EXCEPT !.master = master, !.slave = slave]

\* two schemas as Init leaves them: masters bound, slaves bound where named
SchemaInit ==
    /\ IdleInit
    /\ registered = [d \in {"main", "replica", "other"} |-> IF d = "other" THEN MySQL ELSE Postgres]
    /\ modelPool = {<<>>}
    /\ \E sl1 \in {"", "replica"}, sl2 \in {"", "replica"} :
          schemas = [s \in {"s1", "s2"} |->
                        IF s = "s1"
                        THEN Bound(Schema("s1", "main", sl1, "t1", <<sfID, sfName>>), "main", sl1)
                        ELSE Bound(Schema("s2", "other", sl2, "t2", <<sfID, sfName>>), "other", sl2)]
    /\ tables = [d \in {"main", "replica", "other"} |-> [n \in {"t1", "t2"} |-> NoTable]]
    /\ snap = [s \in {"s1", "s2"} |-> NoSnap]
    /\ diffIn = [fields |-> <<>>, colInfo |-> <<>>]
    /\ diffOut = [called |-> FALSE, result |-> <<>>]
    /\ \E q \in CallerQueries : op = SchemaCall(q, q, Nil, NoReads)

SpecSchema == SchemaInit /\ [][SchemaNext]_vars

\* ------------------------------------------------------------------ NewSchema as a function

\* primary-key fields of nullable kinds: skipped by the db tag, and an interface
sfSkipPK  == StructField("Ref", "ptr", <<"-">>, <<"bigint">>, <<"pk">>)
sfNoTagPK == StructField("Ref", "map", EmptyTag, <<"json">>, <<"pk">>)
sfAnyPK   == StructField("Ref", "interface", <<"ref">>, <<"bigint">>, <<"pk">>)

FieldModels ==
    {m \in SeqsUpTo(StructFields \cup {sfSkipPK, sfNoTagPK, sfAnyPK}, MaxFields) :
        \A i, j \in 1..Len(m) : i # j => m[i].Name # m[j].Name}

RECURSIVE TagText(_)
TagText(parts) == IF Len(parts) = 1 THEN parts[1] ELSE parts[1] \o "," \o TagText(Tail(parts))

\* the SchemaField of the earlier prepareSchemaFields: the whole db tag is the
\* column name, interfaces are not nullable, there is no Migratable
EarlierSchemaFieldOf(f) ==
    [Name         |-> f.Name,
     DBName       |-> TagText(f.db),
     DBType       |-> f.type,
     Nullable     |-> f.Kind \in {"ptr", "map"},
     IsPrimaryKey |-> f.key # EmptyTag /\ \E i \in 1..Len(f.key) : f.key[i] = "pk",
     Length       |-> f.len,
     Default      |-> f.def,
     Comment      |-> f.comment]

\* the earlier loop: fields is made with one nil entry per struct field and
\* entry i is set when struct field i is mapped
RECURSIVE earlierPrepareSchemaFieldsLoop(_, _, _)
earlierPrepareSchemaFieldsLoop(model, i, fields) ==
    IF i > Len(model) THEN [err |-> "", fields |-> fields]
    ELSE IF model[i].db = EmptyTag \/ model[i].db = <<"-">>
    THEN earlierPrepareSchemaFieldsLoop(model, i + 1, fields)
    ELSE IF model[i].type = EmptyTag THEN [err |-> "type is missing", fields |-> <<>>]
    ELSE IF EarlierSchemaFieldOf(model[i]).IsPrimaryKey /\ EarlierSchemaFieldOf(model[i]).Nullable
    THEN [err |-> "primary key is nullable", fields |-> <<>>]
    ELSE earlierPrepareSchemaFieldsLoop(model, i + 1,
             [fields EXCEPT ![i] = Ptr(EarlierSchemaFieldOf(model[i]))])

earlierPrepareSchemaFields(model) ==
    earlierPrepareSchemaFieldsLoop(model, 1, [i \in 1..Len(model) |-> Nil])

\* []*SchemaField: every entry appended is a pointer to its field
Pointers(prepared) ==
    [err |-> prepared.err, fields |-> [i \in 1..Len(prepared.fields) |-> Ptr(prepared.fields[i])]]

Built(model, version, prepared) ==
    [kind |-> "built", model |-> model, version |-> version, err |-> prepared.err,
     fields |-> prepared.fields]

\* NewSchema on the model Init drew
NewSchema ==
    /\ op.kind = "model"
    /\ op' = Built(op.model, "current", Pointers(prepareSchemaFields(op.model)))
    /\ UNCHANGED <<migVars, diffVars>>

\* NewSchema of the earlier dbschema.go
EarlierNewSchema ==
    /\ op.kind = "model"
    /\ op' = Built(op.model, "earlier", earlierPrepareSchemaFields(op.model))
    /\ UNCHANGED <<migVars, diffVars>>

FieldsInit ==
    /\ IdleRegistry
    /\ diffIn = [fields |-> <<>>, colInfo |-> <<>>]
    /\ diffOut = [called |-> FALSE, result |-> <<>>]
    /\ \E m \in FieldModels : op = [kind |-> "model", model |-> m]

SpecFields == FieldsInit /\ [][NewSchema \/ EarlierNewSchema]_vars

\* ------------------------------------------------------------------ the registries

\* what is registered: a Schema (its Name) or a Database (the Name of its
\* params, nil params for an engine that was never initialised); id tells
\* two instances with one name apart
Instance(name, id, params) == [name |-> name, id |-> id, params |-> params]

\* the map of a manager: nil until the first Register makes it
NilMap == [made |-> FALSE, entries |-> <<>>]
MapOf(entries) == [made |-> TRUE, entries |-> entries]
Bind(entries, inst) ==
    [n \in DOMAIN entries \cup {inst.name} |-> IF n = inst.name THEN inst ELSE entries[n]]

Idle == [pc |-> "idle", inst |-> Instance("", 0, FALSE), err |-> ""]
Calling(inst) == [pc |-> "start", inst |-> inst, err |-> ""]
Returned(g, err) == [g EXCEPT !.pc = "done", !.err = err]
At(g, at) == [g EXCEPT !.pc = at]

\* schemaManager.Register, one step of goroutine p: the name check, Lock, the
\* nil check and make, the lookup, the store, the deferred Unlock
schemaRegisterStep(st, p) ==
    IF st.g[p].pc = "start"
    THEN IF st.g[p].inst.name = ""
         THEN [st EXCEPT !.g[p] = Returned(@, "empty schema name")]
         ELSE [st EXCEPT !.g[p] = At(@, "lock")]
    ELSE IF st.g[p].pc = "lock"
    THEN [st EXCEPT !.lock = p, !.g[p] = At(@, "isNil")]
    ELSE IF st.g[p].pc = "isNil"
    THEN [st EXCEPT !.g[p] = At(@, IF st.map.made THEN "lookup" ELSE "make")]
    ELSE IF st.g[p].pc = "make"
    THEN [st EXCEPT !.map = MapOf(<<>>), !.g[p] = At(@, "lookup")]
    ELSE IF st.g[p].pc = "lookup"
    THEN IF st.g[p].inst.name \in DOMAIN st.map.entries
         THEN [st EXCEPT !.g[p] = [@ EXCEPT !.pc = "unlock", !.err = "schema is already registered"]]
         ELSE [st EXCEPT !.g[p] = At(@, "store")]
    ELSE IF st.g[p].pc = "store"
    THEN [st EXCEPT !.map.entries = Bind(@, st.g[p].inst), !.g[p] = At(@, "unlock")]
    ELSE [st EXCEPT !.lock = 0, !.g[p] = At(@, "done")]

\* databaseManager.Register with the lookup left out: the name is bound anew
databaseRegisterOverwrite(st, p) ==
    IF st.g[p].pc = "start"
    THEN [st EXCEPT !.g[p] = At(@, IF st.map.made THEN "params" ELSE "make")]
    ELSE IF st.g[p].pc = "make"
    THEN [st EXCEPT !.map = MapOf(<<>>), !.g[p] = At(@, "params")]
    ELSE IF st.g[p].pc = "params"
    THEN IF ~st.g[p].inst.params
         THEN [st EXCEPT !.g[p] = Returned(@, "empty database params")]
         ELSE IF st.g[p].inst.name = ""
         THEN [st EXCEPT !.g[p] = Returned(@, "empty database name")]
         ELSE [st EXCEPT !.g[p] = At(@, "lookup")]
    ELSE IF st.g[p].pc = "lookup"
    THEN [st EXCEPT !.g[p] = At(@, "store")]
    ELSE [st EXCEPT !.map.entries = Bind(@, st.g[p].inst), !.g[p] = Returned(@, "")]

\* databaseManager.Register, one step of goroutine p: the nil check, make,
\* GetParams and the name check, the lookup, the store; there is no lock
databaseRegisterStep(st, p) ==
    IF st.g[p].pc = "start"
    THEN [st EXCEPT !.g[p] = At(@, IF st.map.made THEN "params" ELSE "make")]
    ELSE IF st.g[p].pc = "make"
    THEN [st EXCEPT !.map = MapOf(<<>>), !.g[p] = At(@, "params")]
    ELSE IF st.g[p].pc = "params"
    THEN IF ~st.g[p].inst.params
         THEN [st EXCEPT !.g[p] = Returned(@, "empty database params")]
         ELSE IF st.g[p].inst.name = ""
         THEN [st EXCEPT !.g[p] = Returned(@, "empty database name")]
         ELSE [st EXCEPT !.g[p] = At(@, "lookup")]
    ELSE IF st.g[p].pc = "lookup"
    THEN IF st.g[p].inst.name \in DOMAIN st.map.entries
         THEN [st EXCEPT !.g[p] = Returned(@, "database is already registered")]
         ELSE [st EXCEPT !.g[p] = At(@, "store")]
    ELSE [st EXCEPT !.map.entries = Bind(@, st.g[p].inst), !.g[p] = Returned(@, "")]

RegisterStep(st, p) ==
    IF st.registry = "schema" THEN schemaRegisterStep(st, p) ELSE databaseRegisterStep(st, p)

\* a goroutine can take its next step: Lock waits for the mutex
CanStep(st, p) ==
    /\ st.g[p].pc \notin {"idle", "done"}
    /\ st.g[p].pc = "lock" => st.lock = 0

\* a whole Register call with no other goroutine running
RECURSIVE RegisterAlone(_, _)
RegisterAlone(st, p) == IF st.g[p].pc = "done" THEN st ELSE RegisterAlone(RegisterStep(st, p), p)

Registry(kind, map, g, last) ==
    [kind |-> kind, registry |-> IF kind \in {"schemas", "racing schemas"} THEN "schema" ELSE "database",
     map |-> map, lock |-> 0, g |-> g, crashed |-> FALSE, last |-> last]

RegisterNames == {"", "a", "b"}
Instances(kind) ==
    {Instance(name, id, params) :
        name \in RegisterNames, id \in 1..MaxInstances, params \in IF kind = "schemas" THEN {TRUE} ELSE BOOLEAN}

Called(st, before) == [st EXCEPT !.last = Ptr([inst |-> st.g[1].inst, err |-> st.g[1].err, before |-> before])]

\* schemaManager.Register, called with nothing else running
SchemaManagerRegister ==
    /\ op.kind = "schemas"
    /\ \E inst \in Instances("schemas") :
          op' = Called(RegisterAlone([op EXCEPT !.g[1] = Calling(inst)], 1), op.map)
    /\ UNCHANGED <<migVars, diffVars>>

\* databaseManager.Register, called with nothing else running
DatabaseManagerRegister ==
    /\ op.kind = "databases"
    /\ \E inst \in Instances("databases") :
          op' = Called(RegisterAlone([op EXCEPT !.g[1] = Calling(inst)], 1), op.map)
    /\ UNCHANGED <<migVars, diffVars>>

RegisterInit ==
    /\ IdleRegistry
    /\ diffIn = [fields |-> <<>>, colInfo |-> <<>>]
    /\ diffOut = [called |-> FALSE, result |-> <<>>]
    /\ \E kind \in {"schemas", "databases"} : op = Registry(kind, NilMap, [p \in {1} |-> Idle], Nil)

SpecRegister == RegisterInit /\ [][SchemaManagerRegister \/ DatabaseManagerRegister]_vars

\* two goroutines in Register at once: any one that can step takes its step
GoRegister ==
    /\ op.kind \in {"racing schemas", "racing databases"}
    /\ ~op.crashed
    /\ \E p \in DOMAIN op.g : CanStep(op, p) /\ op' = RegisterStep(op, p)
    /\ UNCHANGED <<migVars, diffVars>>

\* the map is read or written by one goroutine while another one writes it
\* with nothing ordering the two: the runtime may stop the program
\* ("fatal error: concurrent map writes")
MapRace(st) ==
    /\ st.registry = "database"
    /\ \E p, q \in DOMAIN st.g :
          p # q /\ st.g[p].pc = "store" /\ st.g[q].pc \in {"lookup", "store"}

GoCrash ==
    /\ op.kind \in {"racing schemas", "racing databases"}
    /\ ~op.crashed
    /\ MapRace(op)
    /\ op' = [op EXCEPT !.crashed = TRUE]
    /\ UNCHANGED <<migVars, diffVars>>

\* what is registered before the two calls: nothing, or one other name
EarlierMaps == {NilMap, MapOf([n \in {"c"} |-> Instance("c", 0, TRUE)])}

RaceInit ==
    /\ IdleRegistry
    /\ diffIn = [fields |-> <<>>, colInfo |-> <<>>]
    /\ diffOut = [called |-> FALSE, result |-> <<>>]
    /\ \E kind \in {"racing schemas", "racing databases"}, map \in EarlierMaps, second \in RegisterNames :
          op = Registry(kind, map,
                        [p \in {1, 2} |-> Calling(Instance(IF p = 1 THEN "a" ELSE second, p, TRUE))],
                        Ptr([before |-> map]))

SpecRace == RaceInit /\ [][GoRegister \/ GoCrash]_vars

\* ------------------------------------------------------------------ CREATE TABLE as a function

\* descriptors of mapped fields: keys and plain columns, with and without
\* length, default and comment
Descriptor(name, type, pk, length, def, comment) ==
    [Name |-> name, Migratable |-> TRUE, DBName |-> name, DBType |-> type, Nullable |-> FALSE,
     IsPrimaryKey |-> pk, Length |-> length, Default |-> def, Comment |-> comment]

CreateFields ==
    {Descriptor("k1", <<"bigint">>, TRUE, 0, "", ""),
     Descriptor("c2", <<"varchar">>, FALSE, 10, "'x'", ""),
     Descriptor("k3", <<"int", "unsigned">>, TRUE, 0, "", "key"),
     Descriptor("c4", <<"text">>, FALSE, 0, "", "")}

CreateLists == SeqsUpTo(CreateFields, MaxFields + 1)

Created(driver, fields, stmt) == [kind |-> "created", driver |-> driver, fields |-> fields, stmt |-> stmt]

\* postgreSQL.prepareCreateTableStmt on the list Init drew
PgPrepareCreateTable ==
    /\ op.kind = "create" /\ op.driver = Postgres
    /\ op' = Created(Postgres, op.fields, pgPrepareCreateTableStmt("t1", op.fields))
    /\ UNCHANGED <<migVars, diffVars>>

\* mySQL.prepareCreateTableStmt on the list Init drew, with and without engine
MyPrepareCreateTable ==
    /\ op.kind = "create" /\ op.driver = MySQL
    /\ \E engine \in {"", "InnoDB"} :
          op' = Created(MySQL, op.fields, myPrepareCreateTableStmt("t1", op.fields, engine))
    /\ UNCHANGED <<migVars, diffVars>>

CreateInit ==
    /\ IdleRegistry
    /\ diffIn = [fields |-> <<>>, colInfo |-> <<>>]
    /\ diffOut = [called |-> FALSE, result |-> <<>>]
    /\ \E driver \in {Postgres, MySQL}, fields \in CreateLists :
          op = [kind |-> "create", driver |-> driver, fields |-> fields]

SpecCreate == CreateInit /\ [][PgPrepareCreateTable \/ MyPrepareCreateTable]_vars

\* ------------------------------------------------------------------ PrepareData as a function

\* maps keyed by column names, field names and names of no field
DataKeys == {"id", "ID", "Name", "zz"}
MapOver(keys, queries) ==
    DataMap([k \in keys |-> IF k \in queries THEN MapQuery(qSimple) ELSE MapValue("v1")])

\* struct fields: set, zero, skipped by tag, untagged, tagged with a column of no field
DataFields ==
    {DataField("ID", <<"id">>, "v1", FALSE), DataField("Name", <<"name", "nomigrate">>, "", TRUE),
     DataField("Tmp", <<"-">>, "v3", FALSE), DataField("Raw", EmptyTag, "v4", FALSE),
     DataField("Extra", <<"zz">>, "v5", FALSE)}

DataStructs == {DataStruct(fs) : fs \in SeqsUpTo(DataFields, MaxFields)}

Payloads ==
    DataStructs
    \cup {DataQuery(FALSE, qSimple), DataQuery(TRUE, qSimple), DataOther, DataNil,
          DataPointer(Nil), DataPointer(Ptr(DataOther))}
    \cup {DataPointer(Ptr(d)) : d \in {x \in DataStructs : Len(x.fields) <= 1}}

DataSchemas == {<<>>, <<SchemaFieldOf(sfID)>>, <<SchemaFieldOf(sfID), SchemaFieldOf(sfName)>>}

\* PrepareData on the payload and the field list Init drew
CallPrepareData ==
    /\ op.kind = "data"
    /\ op' = [kind |-> "prepared", data |-> op.data, fields |-> op.fields,
              out |-> PrepareData(op.data, op.fields)]
    /\ UNCHANGED <<migVars, diffVars>>

DataInit ==
    /\ IdleRegistry
    /\ diffIn = [fields |-> <<>>, colInfo |-> <<>>]
    /\ diffOut = [called |-> FALSE, result |-> <<>>]
    /\ \E fields \in DataSchemas :
          \/ \E data \in Payloads : op = [kind |-> "data", data |-> data, fields |-> fields]
          \/ \E keys \in SUBSET DataKeys : \E queries \in SUBSET keys :
                op = [kind |-> "data", data |-> MapOver(keys, queries), fields |-> fields]

SpecData == DataInit /\ [][CallPrepareData]_vars

\* ------------------------------------------------------------------ NewDatabase

MAX_OPEN_CONNS == 100

\* DatabaseParams; Ext is nil or a map, holding an engine or no "engine" key
Ext(isNil, engine) == [isNil |-> isNil, engine |-> engine]
DatabaseParams(name, dbName, driver, connectionString, maxOpenConns, ext) ==
    [Name |-> name, DBName |-> dbName, Driver |-> driver, ConnectionString |-> connectionString,
     MaxOpenConns |-> maxOpenConns, Ext |-> ext]

WithMaxOpenConns(params) ==
    [params EXCEPT !.MaxOpenConns = IF @ <= 0 THEN MAX_OPEN_CONNS ELSE @]

\* postgreSQL.Init
pgInit(params) == [dialect |-> Postgres, params |-> WithMaxOpenConns(params)]

\* mySQL.Init
myInit(params) ==
    [dialect |-> MySQL,
     params |-> [WithMaxOpenConns(params) EXCEPT
                    !.Ext = Ext(FALSE, IF @.isNil \/ @.engine = "" THEN "InnoDB" ELSE @.engine)]]

\* NewDatabase: with a driver of no case db stays the nil interface, and the
\* call of Init on it panics
NewDatabase(params) ==
    IF params.Name = "" THEN [err |-> "database name is missing", db |-> Nil]
    ELSE IF params.ConnectionString = "" THEN [err |-> "connection string is missing", db |-> Nil]
    ELSE IF params.Driver = Postgres
    THEN [err |-> "", db |-> Ptr(pgInit([params EXCEPT !.DBName = IF @ = "" THEN params.Name ELSE @]))]
    ELSE IF params.Driver = MySQL
    THEN [err |-> "", db |-> Ptr(myInit([params EXCEPT !.DBName = IF @ = "" THEN params.Name ELSE @]))]
    ELSE [err |-> "panic", db |-> Nil]

ParamsPool ==
    {DatabaseParams(name, dbName, driver, cs, conns, ext) :
        name \in {"", "main"}, dbName \in {"", "prod"}, driver \in {Postgres, MySQL, "sqlite", ""},
        cs \in {"", "dsn"}, conns \in {0 - 1, 0, 5, MAX_OPEN_CONNS + 1},
        ext \in {Ext(TRUE, ""), Ext(FALSE, ""), Ext(FALSE, "MyISAM")}}

CallNewDatabase ==
    /\ op.kind = "params"
    /\ op' = [kind |-> "new", params |-> op.params, out |-> NewDatabase(op.params)]
    /\ UNCHANGED <<migVars, diffVars>>

NewInit ==
    /\ IdleRegistry
    /\ diffIn = [fields |-> <<>>, colInfo |-> <<>>]
    /\ diffOut = [called |-> FALSE, result |-> <<>>]
    /\ \E params \in ParamsPool : op = [kind |-> "params", params |-> params]

SpecNew == NewInit /\ [][CallNewDatabase]_vars

\* ------------------------------------------------------------------ claims: migration

\* the declared fields whose DB name no live column has, in declared order
SetDifference(fields, colInfos) ==
    SelectSeq(fields, LAMBDA f : f.DBName \notin NamesOf(colInfos))

\* C4: getNewSchemaFields returns exactly the declared fields whose DB name matches no
\* live column name, in declared order, also when both lists have the same length.
C4_PureSetDifference ==
    diffOut.called => diffOut.result = SetDifference(diffIn.fields, diffIn.colInfo)

\* the pass of the current schema has returned nil in this run
PassReturned == cur # "" /\ pc \in {"migrateData", "schemas", "done"}

IsDDL(e) == e.op \in {"CreateTable", "AlterTable"}

\* the migrateSchema calls of schema s in this run, in order
PassEvents(s) ==
    SelectSeq(log, LAMBDA e : e.who = s /\ e.op \in {"IsTableExists", "CreateTable",
                                                     "GetColumnsInfo", "AlterTable"})

\* C5: a pass that follows a successful pass of the same schema, the table unchanged
\* in between, computes an empty new-fields list and issues no CREATE TABLE and no
\* ALTER TABLE.
C5_Idempotent ==
    (stable /\ cur # "" /\ pc # "isTableExists") =>
        /\ newFields = <<>>
        /\ pc \notin {"createTable", "alterTable"}
        /\ \A i \in 1..Len(log) : log[i].who = cur => ~IsDDL(log[i])

\* a second pass over an unchanged, non-empty schema has returned
C5_Witness ==
    stable /\ pc = "done" /\ runs >= 2 /\ Len(schemas["s1"].fields) = 2

\* C6: no field with Migratable = FALSE is in a field list handed to AlterTable.
C6_NoMigrateNeverAltered ==
    \A i \in 1..Len(log) :
        log[i].op = "AlterTable" =>
            \A k \in 1..Len(log[i].fields) : log[i].fields[k].Migratable

ColumnsKept(old, new) ==
    old.exists =>
        /\ new.exists
        /\ \A i \in 1..Len(old.cols) : \E j \in 1..Len(new.cols) : new.cols[j] = old.cols[i]

\* C8: no step of any run removes a live column or changes its definition.
C8_AdditiveOnly ==
    [][\A d \in DOMAIN tables : \A t \in DOMAIN tables[d] :
           ColumnsKept(tables[d][t], tables'[d][t])]_vars

\* after a model change that dropped the field "name" and added another, the pass
\* altered the table and the column "name" is still there
C8_Witness ==
    /\ pc = "done"
    /\ runs >= 2
    /\ \E i \in 1..Len(log) : log[i].op = "AlterTable" /\ log[i].ok
    /\ colName \in Range(tables["main"]["t1"].cols)
    /\ \A k \in 1..Len(schemas["s1"].fields) : schemas["s1"].fields[k].DBName # "name"

\* ------------------------------------------------------------------ claims: Init

\* C9: a failed step is the last call Init makes, and Init has panicked.
C9_FailureAborts ==
    /\ \A i \in 1..Len(log) : ~log[i].ok => (i = Len(log) /\ pc = "panicked")
    /\ pc = "panicked" => (Len(log) > 0 /\ ~Last(log).ok)
    /\ pc = "panicked" => (todoSchemas # {} \/ todoDBs # {})

\* the catalog query of the first schema failed: the other schema is never visited
C9_Witness ==
    /\ pc = "panicked"
    /\ Last(log).op = "IsTableExists"
    /\ Cardinality(todoSchemas) = 2

Before(i, P(_)) == \E j \in 1..(i - 1) : P(log[j])

\* C10: any schema step comes after every database was connected; the migration
\* calls of a schema come after its master (and slave, when named) was bound; Migrate
\* is called only with IsMigrateData set and after the schema's migration succeeded.
C10_Ordered ==
    \A i \in 1..Len(log) :
        LET e == log[i]
        IN  /\ e.op # "Connect" =>
                  \A d \in DOMAIN registered :
                      Before(i, LAMBDA x : x.op = "Connect" /\ x.who = d /\ x.ok)
            /\ e.op \notin {"Connect", "BindMaster", "BindSlave"} =>
                  /\ Before(i, LAMBDA x : x.op = "BindMaster" /\ x.who = e.who /\ x.ok)
                  /\ schemas[e.who].master = schemas[e.who].DatabaseName
                  /\ schemas[e.who].SlaveDatabaseName # "" =>
                        /\ Before(i, LAMBDA x : x.op = "BindSlave" /\ x.who = e.who /\ x.ok)
                        /\ schemas[e.who].slave = schemas[e.who].SlaveDatabaseName
            /\ e.op = "Migrate" =>
                  /\ config.IsMigrateData
                  /\ Before(i, LAMBDA x : /\ x.who = e.who
                                          /\ x.ok
                                          /\ \/ IsDDL(x)
                                             \/ x.op = "GetColumnsInfo" /\ x.fields = <<>>)

\* Init returned after binding a slave and running both data migrations
C10_Witness ==
    /\ pc = "done"
    /\ \E i \in 1..Len(log) : log[i].op = "BindSlave"
    /\ Cardinality({i \in 1..Len(log) : log[i].op = "Migrate"}) = 2

\* ------------------------------------------------------------------ claims: statements

\* the statement and the argument list the handler handed to the executor
Executed(driver, method) ==
    /\ op.kind = "done"
    /\ op.call.driver = driver
    /\ op.call.method = method
    /\ \E i \in 1..Len(op.calls) : op.calls[i].call \in {"Exec", "QueryRowx"}

Execution == op.calls[CHOOSE i \in 1..Len(op.calls) : op.calls[i].call \in {"Exec", "QueryRowx"}]

PlaceholderNumbers == 1..(MaxArgs + MaxVals + 1)
IsPlaceholder(piece) == piece = "?" \/ \E k \in PlaceholderNumbers : piece = "$" \o ToString(k)

\* the positions of the placeholders of stmt among the positions in span, in order
PlaceholdersIn(stmt, span) ==
    SelectSeq([i \in 1..Len(stmt) |-> i], LAMBDA i : i \in span /\ IsPlaceholder(stmt[i]))

\* the argument the executor binds to the placeholder at position p: "$k" takes
\* the k-th argument, the i-th "?" of the statement takes the i-th argument
ArgumentNumber(stmt, p) ==
    IF stmt[p] = "?" THEN Cardinality({i \in 1..p : stmt[i] = "?"})
    ELSE CHOOSE k \in PlaceholderNumbers : stmt[p] = "$" \o ToString(k)

BoundArg(stmt, args, p) ==
    IF ArgumentNumber(stmt, p) \in 1..Len(args) THEN args[ArgumentNumber(stmt, p)] ELSE <<"none", 0>>

FirstAt(stmt, pieces) == CHOOSE i \in 1..Len(stmt) : stmt[i] \in pieces /\ \A j \in 1..(i - 1) : stmt[j] \notin pieces
FirstAfter(stmt, from, pieces) ==
    CHOOSE i \in (from + 1)..Len(stmt) : stmt[i] \in pieces /\ \A j \in (from + 1)..(i - 1) : stmt[j] \notin pieces

\* the value list of an INSERT: what stands between "VALUES (" and ")", or
\* between "SELECT" and "WHERE NOT EXISTS"
ValueListOpen == {" VALUES (", "\nSELECT "}
ValueListClose == {")", " WHERE NOT EXISTS\n(SELECT * FROM ", " WHERE NOT EXISTS\n(SELECT * FROM " \o bq}
ValueListSpan(stmt) ==
    (FirstAt(stmt, ValueListOpen) + 1)..(FirstAfter(stmt, FirstAt(stmt, ValueListOpen), ValueListClose) - 1)
ValueList(stmt) == [i \in 1..Cardinality(ValueListSpan(stmt)) |-> stmt[FirstAt(stmt, ValueListOpen) + i]]

\* every placeholder of the value list binds the value of its column
ValuesBound(stmt, args, values) ==
    /\ Len(PlaceholdersIn(stmt, ValueListSpan(stmt))) = Len(values)
    /\ \A j \in 1..Len(values) :
          BoundArg(stmt, args, PlaceholdersIn(stmt, ValueListSpan(stmt))[j]) = values[j]

InsertsValues(driver) ==
    /\ Executed(driver, "Insert")
    /\ op.call.prepared.Query = Nil
    /\ Len(op.call.prepared.Values) >= 1

\* C1: for every PostgreSQL Insert with a >= 0 args and v >= 1 values, in the plain
\* VALUES form and in the WHERE-NOT-EXISTS form, the placeholder of the j-th target
\* column is $k where position k of the argument list handed to the executor (args
\* followed by values) holds the j-th value.
C1_PgInsertPlaceholdersAgree ==
    InsertsValues(Postgres) =>
        /\ Execution.args = op.call.args \o op.call.prepared.Values
        /\ ValuesBound(Execution.query, Execution.args, op.call.prepared.Values)

\* C2: for every MySQL Insert with v >= 1 values and a >= 0 args, in both forms, the
\* value list holds exactly v comma-separated "?" placeholders, the argument list
\* places the v values before the a args, and the i-th "?" binds the i-th argument
\* as intended.
C2_MyInsertPlaceholdersAgree ==
    InsertsValues(MySQL) =>
        /\ ValueList(Execution.query) = Join([j \in 1..Len(op.call.prepared.Values) |-> "?"], ", ")
        /\ Execution.args = op.call.prepared.Values \o op.call.args
        /\ ValuesBound(Execution.query, Execution.args, op.call.prepared.Values)

\* the SET part and the WHERE part of an UPDATE
WhereAt(stmt) == FirstAt(stmt, {" WHERE "})
SetPlaceholders(stmt) == PlaceholdersIn(stmt, 1..WhereAt(stmt))
WherePlaceholders(stmt) == PlaceholdersIn(stmt, WhereAt(stmt)..Len(stmt))

\* every SET placeholder binds the value of its column and every placeholder of
\* the WHERE text binds the caller's arg
UpdateBound(stmt, args, values, whereArgs) ==
    /\ Len(SetPlaceholders(stmt)) = Len(values)
    /\ \A j \in 1..Len(values) : BoundArg(stmt, args, SetPlaceholders(stmt)[j]) = values[j]
    /\ Len(WherePlaceholders(stmt)) = Len(whereArgs)
    /\ \A i \in 1..Len(whereArgs) : BoundArg(stmt, args, WherePlaceholders(stmt)[i]) = whereArgs[i]

\* C3: for every Update with a WHERE args and v SET values, PostgreSQL numbers the
\* j-th SET column $(a+j) and binds args followed by values, MySQL emits the SET "?"
\* placeholders before the WHERE text and binds values followed by args, and in
\* each case every placeholder binds the value intended for it.
C3_UpdatePlaceholdersAgree ==
    /\ Executed(Postgres, "Update") =>
          /\ Execution.args = op.call.args \o op.call.prepared.Values
          /\ \A j \in 1..Len(op.call.prepared.Values) :
                Execution.query[SetPlaceholders(Execution.query)[j]] = "$" \o ToString(Len(op.call.args) + j)
          /\ UpdateBound(Execution.query, Execution.args, op.call.prepared.Values, op.call.args)
    /\ Executed(MySQL, "Update") =>
          /\ Execution.args = op.call.prepared.Values \o op.call.args
          /\ UpdateBound(Execution.query, Execution.args, op.call.prepared.Values, op.call.args)

C3_Witness ==
    /\ Executed(Postgres, "Update")
    /\ Len(op.call.args) >= 2
    /\ Len(op.call.prepared.Values) >= 2
    /\ op.call.prepared.Queries # {}
    /\ op.err = ""

\* ------------------------------------------------------------------ claims: queries

Compiled == op.kind = "compiled" /\ op.res.err = ""

\* the queries of a UNION chain after its head, left to right
RECURSIVE ChainLinks(_)
ChainLinks(q) == IF q.Union = Nil THEN <<>> ELSE <<q.Union[1]>> \o ChainLinks(q.Union[1].Query)

\* a chain of plain SELECTs: no WITH list and no sub-query in FROM anywhere in it
PlainSelect(q) == q.With = <<>> /\ q.From.kind = "string"
PlainChain(q) ==
    /\ PlainSelect(q)
    /\ \A i \in 1..Len(ChainLinks(q)) : PlainSelect(ChainLinks(q)[i].Query)

UnionKeyword(cl) == <<"\nUNION">> \o (IF cl.All THEN <<" ALL">> ELSE <<>>) \o <<"\n">>

\* the text the chain has to compile to: head, then keyword and query per link
ChainText(q) ==
    prepareSelectStatement(q).out
    \o Flatten([i \in 1..Len(ChainLinks(q)) |->
                   UnionKeyword(ChainLinks(q)[i]) \o prepareSelectStatement(ChainLinks(q)[i].Query).out])

\* C11: a compiled UNION chain of plain SELECTs is the head followed, per link
\* and left to right, by UNION (with ALL exactly when the link's flag is set)
\* and the link's query
C11_UnionKeywords ==
    (Compiled /\ PlainChain(op.q)) => op.res.out = ChainText(op.q)

\* the sub-queries a query uses directly: WITH entries, FROM target, UNION link
WithQueries(q) == {q.With[i].Query : i \in 1..Len(q.With)}
FromQueries(q) == IF q.From.kind = "aliased" THEN {q.From.Query} ELSE {}
UnionQueries(q) == IF q.Union = Nil THEN {} ELSE {q.Union[1].Query}
DirectSubQueries(q) == WithQueries(q) \cup FromQueries(q) \cup UnionQueries(q)

\* a WITH entry or FROM target without alias, at this level or anywhere below
RECURSIVE EmptyAliasInTree(_)
EmptyAliasInTree(q) ==
    \/ \E i \in 1..Len(q.With) : q.With[i].Alias = ""
    \/ q.From.kind = "aliased" /\ q.From.Alias = ""
    \/ \E sub \in DirectSubQueries(q) : EmptyAliasInTree(sub)

\* C12: a query tree holding, at any depth, a WITH entry or a FROM sub-query
\* with an empty alias does not compile: prepareQuery returns an error
C12_EmptyAliasRejected ==
    (op.kind = "compiled" /\ EmptyAliasInTree(op.q)) => op.res.err # ""

IsInfix(s, t) == \E i \in 0..(Len(t) - Len(s)) : SubSeq(t, i + 1, i + Len(s)) = s

\* C13: every sub-query a compiled query uses as WITH entry, FROM target or
\* UNION link appears in the output as prepareQuery compiles it on its own,
\* its own WITH list and UNION chain included
C13_StructuralRecursion ==
    Compiled => \A sub \in DirectSubQueries(op.q) : IsInfix(prepareQuery(sub).out, op.res.out)

\* the optional clauses of a query in the fixed order, each with the piece that
\* opens it, the pieces it has to consist of, and whether it has to appear
ClauseTable(q) ==
    <<[opens |-> "\n", pieces |-> <<"\n", q.Join>>, present |-> q.Join # ""],
      [opens |-> "\nWHERE ", pieces |-> <<"\nWHERE ", q.Where>>, present |-> q.Where # ""],
      [opens |-> "\nGROUP BY ", pieces |-> <<"\nGROUP BY ", q.Group>>, present |-> q.Group # ""],
      [opens |-> "\nHAVING ", pieces |-> <<"\nHAVING ", q.Having>>,
       present |-> q.Having # "" /\ q.Group # ""],
      [opens |-> "\nORDER BY ", pieces |-> <<"\nORDER BY ", q.Order>>, present |-> q.Order # ""],
      [opens |-> "\nLIMIT " \o ToString(q.Limit), pieces |-> <<"\nLIMIT " \o ToString(q.Limit)>>,
       present |-> q.Limit > 0],
      [opens |-> "\nOFFSET " \o ToString(q.Offset), pieces |-> <<"\nOFFSET " \o ToString(q.Offset)>>,
       present |-> q.Offset > 0]>>

Positions(piece, out) == {i \in 1..Len(out) : out[i] = piece}
PositionOf(piece, out) == CHOOSE i \in 1..Len(out) : out[i] = piece
ClauseAt(cl, out) == SubSeq(out, PositionOf(cl.opens, out), PositionOf(cl.opens, out) + Len(cl.pieces) - 1)
FromEnd(out) == PositionOf("\nFROM ", out) + 1

SingleSelect(q) == PlainSelect(q) /\ q.Union = Nil

ClausesInOrder(table, out) ==
    /\ \A i \in 1..Len(table) :
          IF table[i].present
          THEN /\ Cardinality(Positions(table[i].opens, out)) = 1
               /\ ClauseAt(table[i], out) = table[i].pieces
               /\ PositionOf(table[i].opens, out) > FromEnd(out)
          ELSE Positions(table[i].opens, out) = {}
    /\ \A i, j \in 1..Len(table) :
          (i < j /\ table[i].present /\ table[j].present)
              => PositionOf(table[i].opens, out) < PositionOf(table[j].opens, out)

\* C14: in a compiled SELECT the optional clauses follow FROM in the order
\* JOIN, WHERE, GROUP BY, HAVING, ORDER BY, LIMIT, OFFSET; each appears exactly
\* when its field is non-empty (LIMIT and OFFSET when greater than zero), and
\* HAVING only together with GROUP BY
C14_ClauseOrder ==
    (Compiled /\ SingleSelect(op.q)) => ClausesInOrder(ClauseTable(op.q), op.res.out)

\* a query with every optional clause set has been compiled
C14_Witness ==
    /\ Compiled /\ SingleSelect(op.q)
    /\ op.q.Join # "" /\ op.q.Where # "" /\ op.q.Group # "" /\ op.q.Having # ""
    /\ op.q.Order # "" /\ op.q.Limit > 0 /\ op.q.Offset > 0

\* ------------------------------------------------------------------ claims: schema operations

LastCall == op.last[1]
AfterCall(methods) == op.kind = "schema" /\ op.last # Nil /\ LastCall.method \in methods

\* the statement the same read compiles from a Query the caller has just built
FreshBuilt(call) == schemaRead(schemas[call.schema], call.method, op.fresh, <<>>, "").built

\* C15: a read with a Query object the caller has not modified, whatever reads
\* it served before, compiles the SQL that the same read compiles from a
\* fresh Query with the same caller-set fields
C15_QueryReusable == AfterCall(ReadMethods) => LastCall.built = FreshBuilt(LastCall)

\* C16: a read goes to the slave when the schema has one bound and to the
\* master otherwise; Insert, Update and BeginTransaction go to the master or,
\* when the data is rejected, to no engine, and never to the slave
C16_Routing ==
    /\ AfterCall(ReadMethods) =>
          LastCall.on = (IF schemas[LastCall.schema].slave # ""
                            THEN schemas[LastCall.schema].slave
                            ELSE schemas[LastCall.schema].master)
    /\ AfterCall(InsertMethods \cup UpdateMethods \cup {"BeginTransaction"}) =>
          /\ LastCall.on \in {schemas[LastCall.schema].master, ""}
          /\ schemas[LastCall.schema].slave # "" => LastCall.on # schemas[LastCall.schema].slave
          /\ LastCall.calls # <<>> => LastCall.on = schemas[LastCall.schema].master

\* a schema with a slave bound has served a read through its slave and now a
\* write that reached the database
C16_Witness ==
    /\ AfterCall(InsertMethods \cup UpdateMethods)
    /\ schemas[LastCall.schema].slave = "replica"
    /\ LastCall.schema \in op.before.schemas
    /\ LastCall.calls # <<>>

\* ------------------------------------------------------------------ claims: field descriptors

IsSkipped(f) == f.db = EmptyTag \/ f.db = <<"-">>
DeclaresPK(f) == f.key # EmptyTag /\ \E i \in 1..Len(f.key) : f.key[i] = "pk"
DeclaresNullablePK(model) ==
    \E i \in 1..Len(model) : DeclaresPK(model[i]) /\ model[i].Kind \in {"ptr", "map", "interface"}

\* C17: NewSchema returns an error for every model with a field that has pk in
\* its key list and is a pointer, a map or an interface, whatever its other tags
C17_NullablePKRejected ==
    (op.kind = "built" /\ DeclaresNullablePK(op.model)) => op.err # ""

NotSkipped(f) == ~IsSkipped(f)
MappedNames(model) == [i \in 1..Len(SelectSeq(model, NotSkipped)) |-> SelectSeq(model, NotSkipped)[i].Name]

\* C18: the descriptor list of a valid model has no nil entry and holds the
\* non-skipped fields of the model, one entry each, in declaration order
C18_OneEntryPerMappedField ==
    (op.kind = "built" /\ op.err = "") =>
        /\ \A i \in 1..Len(op.fields) : op.fields[i] # Nil
        /\ Len(op.fields) = Len(MappedNames(op.model))
        /\ \A i \in 1..Len(op.fields) : op.fields[i] # Nil => op.fields[i][1].Name = MappedNames(op.model)[i]

\* ------------------------------------------------------------------ claims: RETURNING and ON CONFLICT

Finished(driver, method) == op.kind = "done" /\ op.call.driver = driver /\ op.call.method = method

\* the call came back with an error value: it neither succeeded nor panicked
ReturnsError == op.err \notin {"", "panic"}

\* the RETURNING request of the call, nil when there is none
RequestOf(call) ==
    IF call.method = "Insert"
    THEN (IF call.ext # Nil THEN call.ext[1].Returning ELSE Nil)
    ELSE call.ret
Destinations(call) == IF RequestOf(call) = Nil THEN 0 ELSE RequestOf(call)[1].dest

\* the statement PostgreSQL builds for the call is built without error
PgBuilds(call) ==
    call.method = "Insert" =>
        pgPrepareInsertStmt(call.tableName, call.prepared.DBFields, Len(call.args),
                            Len(call.prepared.Values), call.prepared.Query, call.ext).err = ""
PgUpdateBuilds(call, queries) ==
    pgPrepareUpdateStmt(call.tableName, call.where, Len(call.args), call.prepared.DBFields,
                        queries, <<>>).err = ""
PgStatementBuilds(call) ==
    IF call.method = "Update"
    THEN \A queries \in Orders(call.prepared.Queries) : PgUpdateBuilds(call, queries)
    ELSE PgBuilds(call)

HasReturning(stmt, list) ==
    \E i \in 1..(Len(stmt) - 1) : stmt[i] \in {" RETURNING ", "\nRETURNING "} /\ stmt[i + 1] = list

\* C19: MySQL Insert with two or more RETURNING destinations and MySQL Update
\* and Delete with a RETURNING request return an error and make no database
\* call; PostgreSQL Insert, Update and Delete with one or more destinations,
\* their statement being built, run it once through QueryRowx..Scan with the
\* RETURNING clause in it
C19_ReturningByDialect ==
    /\ (Finished(MySQL, "Insert") /\ Destinations(op.call) >= 2) => (ReturnsError /\ op.calls = <<>>)
    /\ \A method \in {"Update", "Delete"} :
          (Finished(MySQL, method) /\ RequestOf(op.call) # Nil) => (ReturnsError /\ op.calls = <<>>)
    /\ \A method \in {"Insert", "Update", "Delete"} :
          (Finished(Postgres, method) /\ Destinations(op.call) >= 1 /\ PgStatementBuilds(op.call)) =>
              /\ Len(op.calls) = 1
              /\ op.calls[1].call = "QueryRowx"
              /\ HasReturning(op.calls[1].query, RequestOf(op.call)[1].list)

ConflictOf(call) == IF call.ext # Nil THEN call.ext[1].OnConflict ELSE Nil
DoNothingClause(object) == <<" ON CONFLICT (", object, ") DO ", "NOTHING">>

\* C20: a PostgreSQL Insert with the DO NOTHING strategy that is executed
\* carries ON CONFLICT (<object>) DO NOTHING; a PostgreSQL Insert with another
\* strategy and a MySQL Insert with any ON CONFLICT clause return an error;
\* no call that returns an error has made a database call
C20_OnConflict ==
    /\ (Executed(Postgres, "Insert") /\ ConflictOf(op.call) # Nil) =>
          /\ ConflictOf(op.call)[1].Strategy = OnConflictDoNothing
          /\ IsInfix(DoNothingClause(ConflictOf(op.call)[1].Object), Execution.query)
    /\ (Finished(Postgres, "Insert") /\ ConflictOf(op.call) # Nil
            /\ ConflictOf(op.call)[1].Strategy # OnConflictDoNothing) =>
          (ReturnsError /\ op.calls = <<>>)
    /\ (Finished(MySQL, "Insert") /\ ConflictOf(op.call) # Nil) => (ReturnsError /\ op.calls = <<>>)

\* ------------------------------------------------------------------ claims: transactions

\* a MySQL Insert with a RETURNING request the engine accepts, past statement generation
EmulatedReturning ==
    /\ Finished(MySQL, "Insert")
    /\ RequestOf(op.call) # Nil
    /\ Destinations(op.call) <= 1
    /\ op.err # "panic"
    /\ myPrepareInsertStmt(op.call.tableName, op.call.prepared.DBFields, Len(op.call.args),
                           Len(op.call.prepared.Values), op.call.prepared.Query, op.call.ext).err = ""

IsBegin(c) == c.on = "conn" /\ c.call = "Begin"
IsFinish(c) == c.on = "tx" /\ c.call \in {"Commit", "Rollback"}
IsIdRead(c) == c.on = "tx" /\ c.call = "Select" /\ c.query = <<"SELECT LAST_INSERT_ID();">>

\* the calls between Begin and the first Commit or Rollback
InsideOwn(calls) == SelectSeq(Tail(calls), LAMBDA c : ~IsFinish(c))

\* C21: a MySQL Insert with RETURNING and no caller transaction opens a
\* transaction, runs the INSERT and then the id read on it and finishes it on
\* every return path: the call returns nil exactly when Commit is its last
\* call, and after a failed INSERT, id read or Commit its last call is
\* Rollback; when Begin itself fails nothing else is called
C21_OwnTransactionFinished ==
    (EmulatedReturning /\ ~op.call.tx) =>
        /\ op.calls # <<>> /\ IsBegin(op.calls[1])
        /\ \A i \in 2..Len(op.calls) : op.calls[i].on = "tx"
        /\ Len(op.calls) = 1 => op.err # ""
        /\ Len(op.calls) > 1 =>
              /\ IsFinish(Last(op.calls))
              /\ op.calls[2].call = "Exec" /\ op.calls[2].query[1] = "INSERT INTO " \o bq
              /\ Len(InsideOwn(op.calls)) \in {1, 2}
              /\ Len(InsideOwn(op.calls)) = 2 => IsIdRead(InsideOwn(op.calls)[2])
              /\ op.err = "" <=> Last(op.calls).call = "Commit"
              /\ Last(op.calls).call = "Commit" => Len(InsideOwn(op.calls)) = 2

\* the id read failed inside the library's own transaction
C21_Witness ==
    /\ EmulatedReturning /\ ~op.call.tx
    /\ op.err # ""
    /\ Len(op.calls) = 4 /\ IsIdRead(op.calls[3]) /\ op.calls[4].call = "Rollback"

\* C22: with a transaction handle from the caller, every call an operation
\* makes (Select, Get, Insert with the MySQL id read, Update, Delete) is made
\* on that handle, none on the pooled connection, and none of them is Begin,
\* Commit or Rollback, whether the operation returns nil or an error
C22_CallerTransaction ==
    (op.kind = "done" /\ op.call.tx) =>
        \A i \in 1..Len(op.calls) :
            /\ op.calls[i].on = "tx"
            /\ op.calls[i].call \in {"Select", "Get", "Exec", "QueryRowx"}

\* a MySQL Insert in the caller's transaction whose id read failed
C22_Witness ==
    /\ EmulatedReturning /\ op.call.tx
    /\ op.err # ""
    /\ Len(op.calls) = 2 /\ IsIdRead(op.calls[2])

\* ------------------------------------------------------------------ claims: registries

LastRegister == op.last[1]
AfterRegister == op.kind \in {"schemas", "databases"} /\ op.last # Nil
Rejected == LastRegister.inst.name = "" \/ LastRegister.inst.name \in DOMAIN LastRegister.before.entries

\* C23: after any sequence of Register calls a registry binds every name to
\* one instance of that name and binds no empty name; a call with an empty or
\* an already registered name returns an error and leaves every binding as it
\* was, and no call ever rebinds a name
C23_OneEntryPerName ==
    /\ op.kind \in {"schemas", "databases"} =>
          \A n \in DOMAIN op.map.entries : n # "" /\ op.map.entries[n].name = n
    /\ AfterRegister =>
          /\ Rejected => (LastRegister.err # "" /\ op.map.entries = LastRegister.before.entries)
          /\ \A n \in DOMAIN LastRegister.before.entries :
                n \in DOMAIN op.map.entries /\ op.map.entries[n] = LastRegister.before.entries[n]
          /\ LastRegister.err = "" => op.map.entries = Bind(LastRegister.before.entries, LastRegister.inst)

\* a second instance was offered under a registered name and turned down
C23_Witness ==
    /\ AfterRegister
    /\ LastRegister.inst.name \in DOMAIN LastRegister.before.entries
    /\ LastRegister.before.entries[LastRegister.inst.name] # LastRegister.inst
    /\ LastRegister.err # ""

Racing == op.kind \in {"racing schemas", "racing databases"}
BothReturned == Racing /\ \A p \in DOMAIN op.g : op.g[p].pc = "done"
Succeeded == {p \in DOMAIN op.g : op.g[p].err = ""}
AlreadyRegistered == {"schema is already registered", "database is already registered"}

\* C24: two concurrent Register calls never stop the program; when both have
\* returned and the names are equal, one call succeeded and the other returned
\* the already-registered error; every call that succeeded has its instance
\* bound, and what was registered before is still bound
C24_ConcurrentRegister ==
    /\ Racing => ~op.crashed
    /\ BothReturned =>
          /\ (op.g[1].inst.name = op.g[2].inst.name) =>
                /\ Cardinality(Succeeded) = 1
                /\ \A p \in DOMAIN op.g \ Succeeded : op.g[p].err \in AlreadyRegistered
          /\ \A p \in Succeeded :
                /\ op.g[p].inst.name \in DOMAIN op.map.entries
                /\ op.g[p].inst.name # op.g[3 - p].inst.name => op.map.entries[op.g[p].inst.name] = op.g[p].inst
          /\ \A n \in DOMAIN op.last[1].before.entries :
                n \in DOMAIN op.map.entries /\ op.map.entries[n] = op.last[1].before.entries[n]

\* ------------------------------------------------------------------ claims: CREATE TABLE

\* the pieces between the opening "(" and the closing line of the statement
ClosingAt(stmt) == CHOOSE i \in 1..Len(stmt) : stmt[i] \in {"\n);", "\n)"}
Body(stmt) == SubSeq(stmt, 4, ClosingAt(stmt) - 1)

PKIntro == ",\nPRIMARY KEY ("
IsComma(piece) == piece \in {",", ", ", PKIntro}

ClauseNames(clauses) == [i \in 1..Len(clauses) |-> clauses[i].Name]
FieldNames(fields) == [i \in 1..Len(fields) |-> fields[i].DBName]
KeyFields(fields) == SelectSeq(fields, LAMBDA f : f.IsPrimaryKey)
QuoteOf(driver) == IF driver = Postgres THEN "\"" ELSE bq
QuotedKeys(driver, fields) ==
    [i \in 1..Len(KeyFields(fields)) |-> QuoteOf(driver) \o KeyFields(fields)[i].DBName \o QuoteOf(driver)]

\* the PRIMARY KEY clause of a body: from its opening piece to the end
KeyClause(body) == SubSeq(body, PositionOf(PKIntro, body), Len(body))

\* the names in a key list "n1, n2, ...)" with single separators between them
RECURSIVE KeyList(_)
KeyList(pieces) ==
    IF Len(pieces) <= 1 THEN <<>>
    ELSE IF Len(pieces) = 2 THEN <<pieces[1]>>
    ELSE <<pieces[1]>> \o KeyList(SubSeq(pieces, 3, Len(pieces)))

WellSeparated(body) ==
    /\ body # <<>> => (~IsComma(body[1]) /\ ~IsComma(Last(body)))
    /\ \A i \in 1..(Len(body) - 1) : ~(IsComma(body[i]) /\ IsComma(body[i + 1]))
    /\ body # <<>> => body[1] = "\n"
    /\ \A i \in 2..Len(body) : body[i] = "\n" => body[i - 1] = ","

\* C25: CREATE TABLE of either dialect has one column clause per field, in
\* declaration order, then one PRIMARY KEY clause listing the primary-key
\* fields in declaration order, left out exactly when there is none; the
\* clauses are separated by single commas, none leading and none trailing
C25_CreateTableClauses ==
    op.kind = "created" =>
        /\ ClauseNames(ColumnClauses(op.stmt, CreateIntro, 1)) = FieldNames(op.fields)
        /\ Cardinality(Positions("\n", Body(op.stmt))) = Len(op.fields)
        /\ Cardinality(Positions(PKIntro, Body(op.stmt))) = (IF KeyFields(op.fields) # <<>> THEN 1 ELSE 0)
        /\ KeyFields(op.fields) # <<>> =>
              /\ \A i \in Positions("\n", Body(op.stmt)) : i < PositionOf(PKIntro, Body(op.stmt))
              /\ Last(KeyClause(Body(op.stmt))) = ")"
              /\ KeyList(Tail(KeyClause(Body(op.stmt)))) = QuotedKeys(op.driver, op.fields)
              /\ \A i \in 2..Len(KeyClause(Body(op.stmt))) :
                    KeyClause(Body(op.stmt))[i] = ", " <=> (i % 2 = 1 /\ i < Len(KeyClause(Body(op.stmt))))
        /\ WellSeparated(Body(op.stmt))

\* a table with a composite key and a plain column between the key columns
C25_Witness ==
    /\ op.kind = "created"
    /\ Len(op.fields) = 3
    /\ op.fields[1].IsPrimaryKey /\ ~op.fields[2].IsPrimaryKey /\ op.fields[3].IsPrimaryKey
    /\ op.fields[1] # op.fields[3]

\* ------------------------------------------------------------------ claims: PrepareData

DBNames(fields) == {fields[i].DBName : i \in 1..Len(fields)}

\* the struct behind a payload: the payload itself or what a pointer refers to
StructOf(data) == IF data.kind = "struct" THEN data ELSE data.elem[1]
IsStructPayload(data) ==
    data.kind = "struct" \/ (data.kind = "ptr" /\ (data.elem = Nil \/ data.elem[1].kind = "struct"))

Parallel(prepared, fields) ==
    /\ Len(prepared.DBFields) = Len(prepared.Values)
    /\ Range(prepared.DBFields) \subseteq DBNames(fields)

\* the schema fields a map names, by column or by field name
Named(entries, fields) == {i \in 1..Len(fields) : InMap(entries, fields[i])}

MapPrepared(entries, fields, prepared) ==
    /\ Parallel(prepared, fields)
    /\ Len(prepared.DBFields) =
          Cardinality({i \in Named(entries, fields) : ~entries[MapKey(entries, fields[i])].isQuery})
    /\ prepared.Queries =
          {[field |-> fields[i].DBName, query |-> entries[MapKey(entries, fields[i])].v] :
              i \in {j \in Named(entries, fields) : entries[MapKey(entries, fields[j])].isQuery}}
    /\ \A e \in prepared.Queries : e.field \notin Range(prepared.DBFields)

StructPrepared(data, fields, prepared) ==
    /\ Parallel(prepared, fields)
    /\ "" \notin Range(prepared.Values)
    /\ Len(prepared.DBFields) =
          Cardinality({i \in 1..Len(data) : data[i].db[1] \in DBNames(fields) /\ ~data[i].zero})

\* C26: PrepareData yields parallel column and value lists naming schema
\* columns only, with sub-query map values in the sub-query map, zero struct
\* fields left out, a Query payload as the whole-row source with empty lists,
\* and an error for every other payload that is not a struct
C26_PreparedData ==
    op.kind = "prepared" =>
        IF op.data.kind \in {"Query", "*Query"}
        THEN /\ op.out.err = ""
             /\ op.out.prepared.DBFields = <<>> /\ op.out.prepared.Values = <<>>
             /\ op.out.prepared.Query = Ptr(op.data.q)
        ELSE IF op.data.kind = "map"
        THEN op.out.err = "" /\ MapPrepared(op.data.entries, op.fields, op.out.prepared)
        ELSE IF IsStructPayload(op.data)
        THEN /\ op.out.err = ""
             /\ StructPrepared(StructOf(op.data).fields, op.fields, op.out.prepared)
        ELSE op.out.err \notin {"", "panic"}

\* ------------------------------------------------------------------ claims: migrated tables

\* the live columns of the table of schema s in its master database
LiveColumns(s) == tables[schemas[s].master][schemas[s].TableName]

\* C27: once the pass of a schema has returned nil, every declared field's DB
\* name is a live column of the schema's table in the master database
C27_DeclaredColumnsLive ==
    PassReturned =>
        /\ LiveColumns(cur).exists
        /\ \A k \in 1..Len(schemas[cur].fields) :
              schemas[cur].fields[k].DBName \in NamesOf(LiveColumns(cur).cols)

\* ------------------------------------------------------------------ claims: NewDatabase

RejectedParams(params, out) ==
    /\ out.err \notin {"", "panic"}
    /\ out.db = Nil
    /\ params.Name = "" \/ params.ConnectionString = ""

InitialisedEngine(params, out) ==
    /\ out.err = ""
    /\ out.db # Nil
    /\ out.db[1].dialect = params.Driver
    /\ out.db[1].params.Name = params.Name
    /\ out.db[1].params.DBName = (IF params.DBName = "" THEN params.Name ELSE params.DBName)
    /\ out.db[1].params.MaxOpenConns =
          (IF params.MaxOpenConns <= 0 THEN MAX_OPEN_CONNS ELSE params.MaxOpenConns)

\* C28: NewDatabase either returns an error and no engine, the name or the
\* connection string being empty, or an initialised engine of the requested
\* dialect with DBName and MaxOpenConns defaulted; so also for a driver that is
\* neither postgres nor mysql
C28_NewDatabaseOutcomes ==
    op.kind = "new" => (RejectedParams(op.params, op.out) \/ InitialisedEngine(op.params, op.out))

\* ------------------------------------------------------------------ claims: failed statement generation

CompileFails(q) == prepareQuery(q).err # ""

\* the call is one whose statement cannot be generated
SourceFails(call) ==
    call.method = "Insert" /\ call.prepared.Query # Nil /\ CompileFails(call.prepared.Query[1])
SubQueryFails(call) ==
    call.method = "Update" /\ \E e \in call.prepared.Queries : CompileFails(e.query)
ReadFails(call) == call.method \in {"Select", "Get"} /\ CompileFails(call.query)
\* PostgreSQL knows the one strategy DO NOTHING, MySQL none
StrategyFails(call) ==
    /\ call.method = "Insert" /\ ConflictOf(call) # Nil
    /\ call.driver = Postgres => ConflictOf(call)[1].Strategy # OnConflictDoNothing
DestinationsMissing(call) ==
    call.driver = Postgres /\ RequestOf(call) # Nil /\ Destinations(call) = 0

GenerationFails(call) ==
    \/ ReadFails(call) \/ SourceFails(call) \/ SubQueryFails(call)
    \/ StrategyFails(call) \/ DestinationsMissing(call)

\* C29: an operation whose statement cannot be generated returns the error
\* and has made no database call: no statement run and no transaction opened,
\* on the pooled connection and on a caller's transaction alike
C29_FailedGenerationTouchesNothing ==
    (op.kind = "done" /\ GenerationFails(op.call)) => (ReturnsError /\ op.calls = <<>>)

\* ------------------------------------------------------------------ claims: SET clause

\* the assignments of an UPDATE as text: bound columns, then sub-query columns
FieldAssignment(call, i) ==
    IF call.driver = Postgres
    THEN <<call.prepared.DBFields[i], " = ", "$" \o ToString(Len(call.args) + i)>>
    ELSE <<bq \o call.prepared.DBFields[i] \o bq, " = ", "?">>
QueryAssignment(call, e) ==
    IF call.driver = Postgres
    THEN <<e.field, " = (">> \o prepareQuery(e.query).out \o <<")">>
    ELSE <<bq \o e.field \o bq, " = (">> \o prepareQuery(e.query).out \o <<")">>

Assignments(call, queries) ==
    [i \in 1..Len(call.prepared.DBFields) |-> FieldAssignment(call, i)]
    \o [i \in 1..Len(queries) |-> QueryAssignment(call, queries[i])]

\* a list with one ", " between neighbours and none before or after
Separated(items) ==
    IF items = <<>> THEN <<>>
    ELSE Head(items) \o Flatten([i \in 1..(Len(items) - 1) |-> <<", ">> \o items[i + 1]])

UpdateIntro(call) ==
    IF call.driver = Postgres THEN <<"UPDATE ", call.tableName, " SET ">>
    ELSE <<"UPDATE " \o bq, call.tableName, bq \o " SET ">>

IsPrefix(s, t) == Len(s) <= Len(t) /\ SubSeq(t, 1, Len(s)) = s

\* C30: the SET clause of an executed UPDATE with f bound columns and q
\* sub-query columns, f + q >= 1, is the f + q assignments with single commas
\* between them and none leading, trailing or doubled, bound columns first in
\* column order
C30_SetClauseSeparators ==
    \A driver \in {Postgres, MySQL} :
        (Executed(driver, "Update")
            /\ Len(op.call.prepared.DBFields) + Cardinality(op.call.prepared.Queries) >= 1) =>
            \E queries \in Orders(op.call.prepared.Queries) :
                IsPrefix(UpdateIntro(op.call) \o Separated(Assignments(op.call, queries)) \o <<" WHERE ">>,
                         Execution.query)

====
